---------------------------- MODULE Spec2Model ----------------------------
(***************************************************************************)
(* Low-frequency analyzer: the heatmap solve of SimulationCanvas, the      *)
(* colour maps of utils/physics.ts and the App state around them.          *)
(*                                                                         *)
(* Numbers.  The program computes in IEEE doubles and stores the grid in   *)
(* Float32Arrays.  The model computes in fixed point, every quantity an    *)
(* integer count of a unit:                                                *)
(*   lengths      millimetres            (Metre  units per metre)          *)
(*   angles       milliradians                                             *)
(*   cos, sin     1/10000                (TrigOne)                         *)
(*   linear gain  1/100000               (GainOne)                         *)
(*   pressure     1/1000                 (PressureOne)                     *)
(*   intensity    1/10000                (IntensityOne)                    *)
(*   temperature  1/1000 degree Celsius                                    *)
(*   ring ratios  1/1000                 (TurnOne)                         *)
(* Every operation rounds to the unit of its result, as a double rounds to *)
(* its last bit; a Float32Array element keeps F32Bits significant bits.    *)
(* MathPI is the program's rounded constant; the trigonometric functions   *)
(* reduce their argument by the true pi/2 (PiOver2Micro), as Math.cos does. *)
(***************************************************************************)
EXTENDS Integers, Sequences, FiniteSets, TLC

(***************************************************************************)
(* Arithmetic of the platform (Math.*, number, Float32Array)               *)
(***************************************************************************)
Metre == 1000
TrigOne == 10000
GainOne == 100000
PressureOne == 1000
IntensityOne == 10000
WaveOne == 10000
MathPI == 3142
PiOver2Micro == 1570796
F32Bits == 10
F64Bits == 13
LogOne == 16384
TurnOne == 1000

Abs(a) == IF a < 0 THEN -a ELSE a

MathMax(a, b) == IF a >= b THEN a ELSE b

MathMin(a, b) == IF a <= b THEN a ELSE b

\* a / b rounded to the nearest unit, halves away from zero (b > 0)
RDiv(a, b) == IF a >= 0 THEN (2 * a + b) \div (2 * b) ELSE -((2 * (-a) + b) \div (2 * b))

\* Math.round: the nearest integer of a / b, halves towards +infinity (b > 0)
MathRound(a, b) == (2 * a + b) \div (2 * b)

\* Math.floor of a / b (b > 0)
MathFloor(a, b) == a \div b

\* Math.ceil of a / b (b > 0)
MathCeil(a, b) == -((-a) \div b)

\* a / b rounded to the nearest unit, b of either sign and not 0
Quot(a, b) == IF b > 0 THEN RDiv(a, b) ELSE RDiv(-a, -b)

RECURSIVE SqrtBisect(_, _, _)
SqrtBisect(n, lo, hi) ==
    IF hi - lo <= 1 THEN lo
    ELSE LET mid == (lo + hi) \div 2
         IN  IF mid * mid <= n THEN SqrtBisect(n, mid, hi) ELSE SqrtBisect(n, lo, mid)

\* Math.sqrt, correctly rounded to the unit (0 <= n < 46340^2)
MathSqrt(n) ==
    LET f == SqrtBisect(n, 0, 46340)
    IN  IF n - f * f > f THEN f + 1 ELSE f

\* the quadrant and the reduced argument (1/10000 rad, |y| <= pi/4) of x mrad
TrigQuadrant(x) == RDiv(x * 1000, PiOver2Micro)

TrigReduced(x) == RDiv(x * 1000 - TrigQuadrant(x) * PiOver2Micro, 100)

KernelSin(y) ==
    LET y2 == RDiv(y * y, TrigOne)
        y3 == RDiv(y2 * y, TrigOne)
        y5 == RDiv(y3 * y2, TrigOne)
        y7 == RDiv(y5 * y2, TrigOne)
    IN  y - RDiv(y3, 6) + RDiv(y5, 120) - RDiv(y7, 5040)

KernelCos(y) ==
    LET y2 == RDiv(y * y, TrigOne)
        y4 == RDiv(y2 * y2, TrigOne)
        y6 == RDiv(y4 * y2, TrigOne)
    IN  TrigOne - RDiv(y2, 2) + RDiv(y4, 24) - RDiv(y6, 720)

\* Math.cos of x mrad, in 1/TrigOne
MathCos(x) ==
    LET q == TrigQuadrant(x) % 4
        y == TrigReduced(x)
    IN  CASE q = 0 -> KernelCos(y)
          [] q = 1 -> -KernelSin(y)
          [] q = 2 -> -KernelCos(y)
          [] OTHER -> KernelSin(y)

\* Math.sin of x mrad, in 1/TrigOne
MathSin(x) ==
    LET q == TrigQuadrant(x) % 4
        y == TrigReduced(x)
    IN  CASE q = 0 -> KernelSin(y)
          [] q = 1 -> KernelCos(y)
          [] q = 2 -> -KernelSin(y)
          [] OTHER -> -KernelCos(y)

RECURSIVE Pow10Twentieth(_)
\* Math.pow(10, n / 20) in 1/GainOne, by n steps of 10^(1/20) = 1.122
Pow10Twentieth(n) ==
    IF n = 0 THEN GainOne
    ELSE IF n > 0 THEN RDiv(Pow10Twentieth(n - 1) * 1122, 1000)
    ELSE RDiv(Pow10Twentieth(n + 1) * 1000, 1122)

RECURSIVE Log2Mantissa(_, _, _)
\* the fraction of log2 of m / LogOne (LogOne <= m < 2 * LogOne), bit by bit by
\* squaring; w is the weight of the next bit in 1/LogOne
Log2Mantissa(m, w, acc) ==
    IF w = 0 THEN acc
    ELSE LET sq == RDiv(m * m, LogOne)
         IN  IF sq >= 2 * LogOne
             THEN Log2Mantissa(RDiv(sq, 2), w \div 2, acc + w)
             ELSE Log2Mantissa(sq, w \div 2, acc)

RECURSIVE Log2Scaled(_)
\* log2 of q / LogOne in 1/LogOne, q > 0: the exponent first, then the mantissa
Log2Scaled(q) ==
    IF q >= 2 * LogOne THEN LogOne + Log2Scaled(RDiv(q, 2))
    ELSE IF q < LogOne THEN Log2Scaled(q * 2) - LogOne
    ELSE Log2Mantissa(q, LogOne \div 2, 0)

\* 20 * Math.log10(x) in millidecibels, x = q / LogOne; a quotient below the unit
\* is below every dynamic range the program uses
MathLog10Times20(q) ==
    IF q <= 0 THEN -15 * 6021
    ELSE RDiv(Log2Scaled(q) * 3763, 10240)

\* Math.atan of t / TrigOne for 0 <= t <= TrigOne, in mrad
AtanUnit(t) ==
    LET u == TrigOne - t
    IN  RDiv(7854 * t + RDiv(t * u, TrigOne) * (2447 + RDiv(663 * t, TrigOne)), 10 * TrigOne)

\* Math.atan2(y, x) in mrad, in (-pi, pi]
MathAtan2(y, x) ==
    LET ay == Abs(y)
        ax == Abs(x)
        a  == IF ax = 0 /\ ay = 0 THEN 0
              ELSE IF ay <= ax THEN AtanUnit(RDiv(ay * TrigOne, ax))
              ELSE RDiv(MathPI, 2) - AtanUnit(RDiv(ax * TrigOne, ay))
        b  == IF x >= 0 THEN a ELSE MathPI - a
    IN  IF y >= 0 THEN b ELSE -b

RECURSIVE F32Grain(_)
\* the spacing of 32-bit floats around a >= 0: a count of F32Bits significant bits
F32Grain(a) == IF a < 2 ^ F32Bits THEN 1 ELSE 2 * F32Grain(a \div 2)

\* a value stored into a Float32Array element: rounded to the nearest float,
\* ties to even
F32Mag(a) ==
    LET g == F32Grain(a)
        lo == (a \div g) * g
        r == a - lo
    IN  IF 2 * r < g THEN lo
        ELSE IF 2 * r > g THEN lo + g
        ELSE IF (lo \div g) % 2 = 0 THEN lo ELSE lo + g

F32(a) == IF a >= 0 THEN F32Mag(a) ELSE -F32Mag(-a)

RECURSIVE F64Grain(_)
\* the spacing of doubles around a >= 0: a count of F64Bits significant bits
F64Grain(a) == IF a < 2 ^ F64Bits THEN 1 ELSE 2 * F64Grain(a \div 2)

\* the result of an addition of numbers: the nearest double, ties to even
F64Mag(a) ==
    LET g == F64Grain(a)
        lo == (a \div g) * g
        r == a - lo
    IN  IF 2 * r < g THEN lo
        ELSE IF 2 * r > g THEN lo + g
        ELSE IF (lo \div g) % 2 = 0 THEN lo ELSE lo + g

F64(a) == IF a >= 0 THEN F64Mag(a) ELSE -F64Mag(-a)

(***************************************************************************)
(* utils/physics.ts                                                        *)
(***************************************************************************)
\* the speed of sound in mm/s at a temperature in 1/1000 degree Celsius
calculateSpeedOfSound(temperature) == 331300 + RDiv(606 * temperature, 1000)

\* Math.pow(10, db / 20) in 1/GainOne, db in whole decibels
dbToLinear(db) == Pow10Twentieth(db)

\* the ramp without Math.max(0, Math.min(1, value))
getHeatmapColorUnclamped(value) ==
    LET v == value
    IN  IF 10 * v < 2 * IntensityOne
        THEN <<0, 0, MathRound(v * 255, 2000)>>
        ELSE IF 10 * v < 4 * IntensityOne
        THEN <<0, MathRound((v - 2000) * 255, 2000), 255>>
        ELSE IF 10 * v < 6 * IntensityOne
        THEN <<0, 255, MathRound(255 * 2000 - (v - 4000) * 255, 2000)>>
        ELSE IF 10 * v < 8 * IntensityOne
        THEN <<MathRound((v - 6000) * 255, 2000), 255, 0>>
        ELSE IF 100 * v < 95 * IntensityOne
        THEN <<255, MathRound(255 * 1500 - (v - 8000) * 255, 1500), 0>>
        ELSE <<255, MathRound((v - 9500) * 255, 500), MathRound((v - 9500) * 255, 500)>>

\* the colour of the stop below, without interpolation
getHeatmapColorStepped(value) ==
    LET v == MathMax(0, MathMin(IntensityOne, value))
    IN  IF 10 * v < 2 * IntensityOne THEN <<0, 0, 0>>
        ELSE IF 10 * v < 4 * IntensityOne THEN <<0, 0, 255>>
        ELSE IF 10 * v < 6 * IntensityOne THEN <<0, 255, 255>>
        ELSE IF 10 * v < 8 * IntensityOne THEN <<0, 255, 0>>
        ELSE IF 100 * v < 95 * IntensityOne THEN <<255, 255, 0>>
        ELSE IF v < IntensityOne THEN <<255, 0, 0>>
        ELSE <<255, 255, 255>>

\* value in 1/IntensityOne; the result is <<r, g, b>>
getHeatmapColor(value) ==
    LET v == MathMax(0, MathMin(IntensityOne, value))
    IN  IF 10 * v < 2 * IntensityOne
        THEN <<0, 0, MathRound(v * 255, 2000)>>
        ELSE IF 10 * v < 4 * IntensityOne
        THEN <<0, MathRound((v - 2000) * 255, 2000), 255>>
        ELSE IF 10 * v < 6 * IntensityOne
        THEN <<0, 255, MathRound(255 * 2000 - (v - 4000) * 255, 2000)>>
        ELSE IF 10 * v < 8 * IntensityOne
        THEN <<MathRound((v - 6000) * 255, 2000), 255, 0>>
        ELSE IF 100 * v < 95 * IntensityOne
        THEN <<255, MathRound(255 * 1500 - (v - 8000) * 255, 1500), 0>>
        ELSE <<255, MathRound((v - 9500) * 255, 500), MathRound((v - 9500) * 255, 500)>>

\* the hue without t = t - Math.floor(t): outside [0, 6) the remainder i % 6 of
\* JavaScript is negative or the switch finds f outside [0, 1), and below 0 no
\* case matches, which leaves r = g = b = 0
getPhaseColorUnwrapped(radians) ==
    LET t  == RDiv((radians + MathPI) * IntensityOne, 2 * MathPI)
        i  == MathFloor(t * 6, IntensityOne)
        f  == t * 6 - i * IntensityOne
        q  == IntensityOne - f
        c1 == 255
        cu == MathRound(f * 255, IntensityOne)
        cq == MathRound(q * 255, IntensityOne)
    IN  IF i < 0 THEN <<0, 0, 0>>
        ELSE CASE i % 6 = 0 -> <<c1, cu, 0>>
               [] i % 6 = 1 -> <<cq, c1, 0>>
               [] i % 6 = 2 -> <<0, c1, cu>>
               [] i % 6 = 3 -> <<0, cq, c1>>
               [] i % 6 = 4 -> <<cu, 0, c1>>
               [] OTHER     -> <<c1, 0, cq>>

\* radians in mrad; the result is <<r, g, b>>
getPhaseColor(radians) ==
    LET t0 == RDiv((radians + MathPI) * IntensityOne, 2 * MathPI)
        t  == t0 - MathFloor(t0, IntensityOne) * IntensityOne
        i  == MathFloor(t * 6, IntensityOne)
        f  == t * 6 - i * IntensityOne
        q  == IntensityOne - f
        c1 == 255
        cu == MathRound(f * 255, IntensityOne)
        cq == MathRound(q * 255, IntensityOne)
    IN  CASE i % 6 = 0 -> <<c1, cu, 0>>
          [] i % 6 = 1 -> <<cq, c1, 0>>
          [] i % 6 = 2 -> <<0, c1, cu>>
          [] i % 6 = 3 -> <<0, cq, c1>>
          [] i % 6 = 4 -> <<cu, 0, c1>>
          [] OTHER     -> <<c1, 0, cq>>

\* the filter of computeSoundField: the speakers' own flags only
computeSoundFieldActive(spk) ==
    SelectSeq(spk, LAMBDA s :
        ~s.mute /\ ((~\E i \in DOMAIN spk : spk[i].solo) \/ s.solo))

\* computeSoundField: new Float32Array(width * height) throws a RangeError on a
\* negative length and on nothing else; the buffer is returned filled with
\* -Infinity when no speaker is active and with its initial zeros otherwise
computeSoundField(width, height, spk) ==
    IF width * height < 0
    THEN [thrown |-> "RangeError", allocated |-> FALSE, length |-> 0, fill |-> "none",
          activeSpeakers |-> << >>]
    ELSE [thrown |-> "none", allocated |-> TRUE, length |-> width * height,
          fill |-> IF Len(computeSoundFieldActive(spk)) = 0 THEN "-Infinity" ELSE "0",
          activeSpeakers |-> computeSoundFieldActive(spk)]

(***************************************************************************)
(* The state: App's useState values, the canvas element, and what the last *)
(* run of the heatmap effect computed                                      *)
(***************************************************************************)
VARIABLES
    speakers,      \* App: Speaker[], each [id, groupId, x, y, gain, delay, polarity, mute, solo]
    groups,        \* App: Group[], each [id, mute, solo]
    settings,      \* App: SimulationSettings
    viewMode,      \* App: "SPL" | "Phase"
    dimensions,    \* SimulationCanvas: the canvas' width and height attributes
    pending,       \* the heatmap effect is scheduled (a dependency changed)
    thrown,        \* the exception the last run of the effect ended with, or "none"
    activeSpeakers,\* the effect's activeSpeakers
    reMap,         \* the effect's Float32Arrays; << >> while not allocated
    imMap,
    magMap,
    totals,        \* reTotal, imTotal and pressure of each iteration of the grid loop
    maxPressure,   \* the effect's maxPressure (a double)
    canvas,        \* the pixels the heatmap canvas shows, << >> or [0..n-1 -> <<r,g,b>>]
    soundField,    \* what the last call of computeSoundField ended with
    presented,     \* the props and canvas size of the run that painted what the canvas shows
    overlay,       \* the wavefront rings of the overlay effect for the selected speaker
    colorCall,     \* a call of getHeatmapColor or getPhaseColor: its argument and result
    selectedSpeakerIds, \* App: the ids of the selected speakers, in order of selection
    isDragging,    \* SimulationCanvas: a drag is under way
    dragStart,     \* SimulationCanvas: the mouse position of the mouse-down, or Null
    initialPositions \* SimulationCanvas: id -> position of the selected speakers at the mouse-down

vars == <<speakers, groups, settings, viewMode, dimensions, pending, thrown,
          activeSpeakers, reMap, imMap, magMap, totals, maxPressure, canvas,
          soundField, presented, overlay, colorCall, selectedSpeakerIds, isDragging,
          dragStart, initialPositions>>

inputs == <<speakers, groups, settings, viewMode, dimensions>>

interaction == <<selectedSpeakerIds, isDragging, dragStart, initialPositions>>

\* dragStart while no drag is set up
Null == [null |-> TRUE]

\* initialPositions while no drag is set up: {}
NoPositions == [id \in {} |-> [x |-> 0, y |-> 0]]

\* groupId of a speaker that has none
Undefined == 0

\* '#0f172a'
Background == <<15, 23, 42>>

\* the bitmap of a canvas created with alpha: false, before anything is drawn
Blank(width, height) ==
    [i \in 0 .. MathMax(width, 0) * MathMax(height, 0) - 1 |-> <<0, 0, 0>>]

(***************************************************************************)
(* SimulationCanvas: the heatmap effect                                    *)
(***************************************************************************)
\* ((pixels - canvasSize / 2) / canvasSize) * venueSize, in mm; venueSize in metres
pixelsToMeters(pixels, canvasSize, venueSize) ==
    RDiv((2 * pixels - canvasSize) * venueSize * Metre, 2 * canvasSize)

\* k = (2 * Math.PI * settings.frequency) / c, in 1/WaveOne rad per metre
WaveNumber(st) ==
    RDiv(2 * MathPI * st.frequency * (WaveOne \div 10),
         RDiv(calculateSpeedOfSound(st.temperature), 10))

\* groups.find(g => g.id === s.groupId): the first match, or no group
FindGroup(grp, gid) ==
    LET hits == {i \in DOMAIN grp : grp[i].id = gid}
    IN  IF hits = {} THEN [found |-> FALSE, mute |-> FALSE, solo |-> FALSE]
        ELSE LET g == grp[CHOOSE i \in hits : \A j \in hits : i <= j]
             IN  [found |-> TRUE, mute |-> g.mute, solo |-> g.solo]

\* isSpeakerActive of SimulationCanvas, a closure over groups
isSpeakerActive(s, grp) ==
    LET group == FindGroup(grp, s.groupId)
    IN  ~s.mute /\ (~group.found \/ ~group.mute)

\* solo read from the speakers alone
isSoloActiveSpeakersOnly(spk, grp) == \E i \in DOMAIN spk : spk[i].solo

isSoloActive(spk, grp) ==
    LET anySpeakerSolo == \E i \in DOMAIN spk : spk[i].solo
        anyGroupSolo == \E i \in DOMAIN grp : grp[i].solo
    IN  anySpeakerSolo \/ anyGroupSolo

\* a filter callback that keeps every speaker
ActiveFilterKeepsAll(s, spk, grp) == TRUE

\* a filter callback that asks for solo before mute
ActiveFilterSoloFirst(s, spk, grp) ==
    LET group == FindGroup(grp, s.groupId)
    IN  IF isSoloActive(spk, grp) THEN s.solo \/ group.solo
        ELSE ~(s.mute \/ group.mute)

\* the filter callback of the effect
ActiveFilter(s, spk, grp) ==
    LET group == FindGroup(grp, s.groupId)
        effectivelyMuted == s.mute \/ group.mute
    IN  IF effectivelyMuted THEN FALSE
        ELSE IF isSoloActive(spk, grp) THEN s.solo \/ group.solo
        ELSE TRUE

\* a phase shift that leaves the polarity out
PhaseShiftOfDelay(s, st) == -RDiv(2 * MathPI * st.frequency * s.delay, 1000)

\* phaseShift of a speaker, in mrad
PhaseShift(s, st) ==
    -RDiv(2 * MathPI * st.frequency * s.delay, 1000) + (IF s.polarity THEN MathPI ELSE 0)

\* speakers.filter(...).map(...)
ActiveSpeakers(spk, grp, st) ==
    LET kept == SelectSeq(spk, LAMBDA s : ActiveFilter(s, spk, grp))
    IN  [i \in DOMAIN kept |->
            [id |-> kept[i].id, x |-> kept[i].x, y |-> kept[i].y,
             linGain |-> dbToLinear(kept[i].gain),
             phaseShift |-> PhaseShift(kept[i], st)]]

\* the distance of a cell from a source as the loop body computes it: r
SourceR(s, xMeters, yMeters) ==
    LET dx == xMeters - s.x
        dy == yMeters - s.y
    IN  MathSqrt(dx * dx + dy * dy)

\* a floor of 0.05 m
SourceDistHalfFloor(r) == MathMax(r, Metre \div 20)

\* dist = Math.max(r, 0.1)
SourceDist(r) == MathMax(r, Metre \div 10)

\* a magnitude that grows with the distance: linGain * dist
SourceMagTimesDist(s, r) == RDiv((s.linGain \div 1000) * SourceDist(r), 1000)

\* mag = s.linGain / dist, in 1/PressureOne
SourceMag(s, r) == RDiv(s.linGain * ((PressureOne * Metre) \div GainOne), SourceDist(r))

\* the phase taken at the clamped distance
SourcePhaseOfDist(s, r, k) == -RDiv(k * SourceDist(r), WaveOne) + s.phaseShift

\* phase = -k * r + s.phaseShift, in mrad
SourcePhase(s, r, k) == -RDiv(k * r, WaveOne) + s.phaseShift

\* <<mag * Math.cos(phase), mag * Math.sin(phase)>>
Polar(mag, phase) ==
    <<RDiv(mag * MathCos(phase), TrigOne), RDiv(mag * MathSin(phase), TrigOne)>>

\* what one source adds to reTotal and imTotal at a cell r away from it
ContributionAt(s, r, k) == Polar(SourceMag(s, r), SourcePhase(s, r, k))

\* the body of the loop over activeSpeakers at the cell (xMeters, yMeters)
Contribution(s, xMeters, yMeters, k) == ContributionAt(s, SourceR(s, xMeters, yMeters), k)

\* reTotal = ..., imTotal = ...: the last source alone
AddTotalsKeepsLast(tot, c) == c

\* reTotal += ..., imTotal += ...
AddTotals(tot, c) == <<tot[1] + c[1], tot[2] + c[2]>>

RECURSIVE SumContributions(_, _, _, _, _)
\* the loop over activeSpeakers: <<reTotal, imTotal>> after the first n of them
SumContributions(act, n, xMeters, yMeters, k) ==
    IF n = 0 THEN <<0, 0>>
    ELSE AddTotals(SumContributions(act, n - 1, xMeters, yMeters, k),
                   Contribution(act[n], xMeters, yMeters, k))

\* pressure = Math.sqrt(reTotal * reTotal + imTotal * imTotal), with the totals
CellTotals(tot) ==
    [re |-> tot[1], im |-> tot[2],
     pressure |-> MathSqrt(tot[1] * tot[1] + tot[2] * tot[2])]

\* the body of the grid loop for cell (px, py): reTotal, imTotal and pressure
CellField(px, py, width, height, act, st) ==
    CellTotals(SumContributions(act, Len(act),
                                pixelsToMeters(px, width, st.venueWidth),
                                pixelsToMeters(py, height, st.venueDepth),
                                WaveNumber(st)))

\* the maximum set once, by the first pressure above 0
TrackMaxSetOnce(maxP, pressure) == IF maxP > 0 THEN maxP ELSE pressure

\* if (pressure > maxPressure) maxPressure = pressure
TrackMax(maxP, pressure) == IF pressure > maxP THEN pressure ELSE maxP

RECURSIVE GridLoop(_, _, _, _, _, _)
\* the grid loop, row by row: the values of iterations lo .. hi in index order
GridLoop(lo, hi, width, height, act, st) ==
    IF lo > hi THEN << >>
    ELSE IF lo = hi
    THEN <<CellField(lo % width, lo \div width, width, height, act, st)>>
    ELSE LET mid == (lo + hi) \div 2
         IN  GridLoop(lo, mid, width, height, act, st)
                 \o GridLoop(mid + 1, hi, width, height, act, st)

RECURSIVE MaxPressureAfter(_, _, _)
\* maxPressure after iterations lo .. hi of the grid loop, entered with 0: the
\* pressure that no later iteration exceeded
MaxPressureAfter(field, lo, hi) ==
    IF lo > hi THEN 0
    ELSE IF lo = hi THEN TrackMax(0, field[lo + 1].pressure)
    ELSE LET mid == (lo + hi) \div 2
         IN  TrackMax(MaxPressureAfter(field, lo, mid), MaxPressureAfter(field, mid + 1, hi))

\* intensity of a cell of stored magnitude p in SPL mode, in 1/IntensityOne
Intensity(p, maxP, st) ==
    IF p > 0
    THEN LET dbRelative == MathLog10Times20(RDiv(p * LogOne, maxP))
         IN  RDiv((dbRelative + st.dynamicRange * 1000) * (IntensityOne \div 1000),
                  st.dynamicRange)
    ELSE 0

\* a threshold of 0: no cell is too quiet
MinPressureZero(maxP, st) == 0

\* minPressure = maxPressure * dbToLinear(-settings.dynamicRange)
MinPressure(maxP, st) == RDiv(maxP * dbToLinear(-st.dynamicRange), GainOne)

\* the body of the encode loop: the pixel of a cell
EncodeCell(p, re, im, maxP, st, mode) ==
    IF mode = "SPL"
    THEN getHeatmapColor(Intensity(p, maxP, st))
    ELSE IF p > MinPressure(maxP, st)
         THEN getPhaseColor(MathAtan2(im, re))
         ELSE Background

\* what the effect leaves behind when the grid loop computed `field` and maxP
SolveResult(field, maxP, act, st, mode, n) ==
    [thrown |-> "none", activeSpeakers |-> act,
     reMap |-> [i \in 0 .. n - 1 |-> F32(field[i + 1].re)],
     imMap |-> [i \in 0 .. n - 1 |-> F32(field[i + 1].im)],
     magMap |-> [i \in 0 .. n - 1 |-> F32(field[i + 1].pressure)],
     totals |-> [i \in 0 .. n - 1 |-> field[i + 1]],
     maxPressure |-> maxP,
     canvas |-> [i \in 0 .. n - 1 |->
                    EncodeCell(F32(field[i + 1].pressure), F32(field[i + 1].re),
                               F32(field[i + 1].im), maxP, st, mode)]]

\* the grid loop done, the encode loop and putImageData
SolveEncode(field, act, st, mode, n) ==
    SolveResult(field, MaxPressureAfter(field, 0, n - 1), act, st, mode, n)

\* the effect from `let maxPressure = 0` on: the grid loop and the encode loop
SolveRun(act, st, mode, width, height) ==
    SolveEncode(GridLoop(0, width * height - 1, width, height, act, st),
                act, st, mode, width * height)

\* what the effect would leave behind without `if (activeSpeakers.length === 0)`
EmptyRunFallsThrough(act, st, mode, width, height) == SolveRun(act, st, mode, width, height)

\* if (activeSpeakers.length === 0): fillRect with '#0f172a', and return
EmptyRun(act, st, mode, width, height) ==
    [thrown |-> "none", activeSpeakers |-> act, reMap |-> << >>, imMap |-> << >>,
     magMap |-> << >>, totals |-> << >>, maxPressure |-> 0,
     canvas |-> [i \in 0 .. width * height - 1 |-> Background]]

\* a run that writes its first cell into the bitmap on show and leaves the rest
HeatmapRunInPlace(spk, grp, st, mode, width, height, shown) ==
    LET act == ActiveSpeakers(spk, grp, st)
        run == IF Len(act) = 0 THEN EmptyRun(act, st, mode, MathMax(width, 1), MathMax(height, 1))
               ELSE SolveRun(act, st, mode, MathMax(width, 1), MathMax(height, 1))
    IN  IF width = 0 \/ height = 0
        THEN [run EXCEPT !.thrown = "IndexSizeError", !.canvas = shown]
        ELSE [run EXCEPT !.canvas = [i \in DOMAIN shown |->
                                        IF i = 0 THEN run.canvas[i] ELSE shown[i]]]

\* one run of the effect on a canvas that shows `shown`: what it leaves behind
HeatmapRun(spk, grp, st, mode, width, height, shown) ==
    LET act == ActiveSpeakers(spk, grp, st)
    IN  IF width = 0 \/ height = 0
        THEN \* ctx.createImageData throws an IndexSizeError
             [thrown |-> "IndexSizeError", activeSpeakers |-> << >>, reMap |-> << >>,
              imMap |-> << >>, magMap |-> << >>, totals |-> << >>, maxPressure |-> 0,
              canvas |-> shown]
        ELSE IF Len(act) = 0
        THEN EmptyRun(act, st, mode, width, height)
        ELSE SolveRun(act, st, mode, width, height)

\* the props the effect's closure holds and the canvas size it reads
Snapshot ==
    [painted |-> TRUE, speakers |-> speakers, groups |-> groups, settings |-> settings,
     viewMode |-> viewMode, dimensions |-> dimensions]

\* nothing painted since the canvas bitmap was created or reset
Unpainted == [painted |-> FALSE]

\* the overlay effect has not reached the rings
NoRings ==
    [pc |-> "idle", nan |-> FALSE, m |-> 0, peaks |-> << >>, troughs |-> << >>, skipped |-> 0,
     turn |-> FALSE]

\* no colour map has been called
NoColorCall == [fn |-> "none", arg |-> 0, called |-> FALSE, rgb |-> << >>]

\* the effect runs after a render in which one of its dependencies changed
HeatmapEffect ==
    /\ pending
    /\ \E run \in {HeatmapRun(speakers, groups, settings, viewMode,
                              dimensions.w, dimensions.h, canvas)} :
           /\ thrown' = run.thrown
           /\ activeSpeakers' = run.activeSpeakers
           /\ reMap' = run.reMap
           /\ imMap' = run.imMap
           /\ magMap' = run.magMap
           /\ totals' = run.totals
           /\ maxPressure' = run.maxPressure
           /\ canvas' = run.canvas
           /\ presented' = IF run.thrown = "none" THEN Snapshot ELSE presented
    /\ pending' = FALSE
    /\ UNCHANGED <<inputs, soundField, overlay, colorCall, interaction>>

\* App's setSpeakers, setGroups, setSettings and setViewMode: the next render
\* passes a new prop to SimulationCanvas and the heatmap effect is scheduled
SetSpeakers(v) ==
    /\ speakers' = v
    /\ pending' = TRUE
    /\ UNCHANGED <<groups, settings, viewMode, dimensions, thrown, activeSpeakers, reMap,
                   imMap, magMap, totals, maxPressure, canvas, soundField, presented,
                   overlay, colorCall, interaction>>

SetGroups(v) ==
    /\ groups' = v
    /\ pending' = TRUE
    /\ UNCHANGED <<speakers, settings, viewMode, dimensions, thrown, activeSpeakers, reMap,
                   imMap, magMap, totals, maxPressure, canvas, soundField, presented,
                   overlay, colorCall, interaction>>

SetSettings(v) ==
    /\ settings' = v
    /\ pending' = TRUE
    /\ UNCHANGED <<speakers, groups, viewMode, dimensions, thrown, activeSpeakers, reMap,
                   imMap, magMap, totals, maxPressure, canvas, soundField, presented,
                   overlay, colorCall, interaction>>

SetViewMode(v) ==
    /\ viewMode' = v
    /\ pending' = TRUE
    /\ UNCHANGED <<speakers, groups, settings, dimensions, thrown, activeSpeakers, reMap,
                   imMap, magMap, totals, maxPressure, canvas, soundField, presented,
                   overlay, colorCall, interaction>>

\* the ResizeObserver callback with a new content size: setDimensions, and the
\* render sets the canvas' width and height attributes, which resets its
\* bitmap.  dimensions is not among the dependencies of the heatmap effect, so
\* the render schedules no run of it
SetDimensions(v) ==
    /\ v # dimensions
    /\ dimensions' = v
    /\ canvas' = Blank(v.w, v.h)
    /\ presented' = Unpainted
    /\ UNCHANGED <<speakers, groups, settings, viewMode, pending, thrown, activeSpeakers,
                   reMap, imMap, magMap, totals, maxPressure, soundField, overlay,
                   colorCall, interaction>>

\* a caller of the exported computeSoundField, with the snapshot as arguments
ComputeSoundField ==
    /\ ~soundField.called
    /\ soundField' = [called |-> TRUE] @@ computeSoundField(dimensions.w, dimensions.h, speakers)
    /\ UNCHANGED <<inputs, pending, thrown, activeSpeakers, reMap, imMap, magMap, totals,
                   maxPressure, canvas, presented, overlay, colorCall, interaction>>

(***************************************************************************)
(* SimulationCanvas: the overlay effect, the wavefront rings of a selected *)
(* speaker.  overlay.pc is the position in the forEach callback: "start",  *)
(* "peaks" and "troughs" (in the loops), "done", or the loop in which      *)
(* ctx.arc threw.  overlay.nan says that m is NaN; overlay.turn changes at *)
(* each iteration that leaves m as it was, so that an iteration is a step. *)
(***************************************************************************)
\* phaseShift of the selected speaker, in mrad
RingPhaseShift(s, st) ==
    -RDiv(2 * MathPI * st.frequency * s.delay, 1000) + (IF s.polarity THEN MathPI ELSE 0)

\* lambda = c / settings.frequency, in mm
Wavelength(st) == RDiv(calculateSpeedOfSound(st.temperature), st.frequency)

\* base_r = (phaseShift / (2 * Math.PI)) * lambda, in mm
RingBaseR(s, st) ==
    RDiv(RDiv(RingPhaseShift(s, st) * TurnOne, 2 * MathPI) * Wavelength(st), TurnOne)

\* the first ring taken from Math.floor
RingStartFloor(base, lambda) == MathFloor(Quot(-base * TurnOne, lambda), TurnOne)

\* start_m = Math.ceil(-base_r / lambda), lambda not 0
RingStart(base, lambda) == MathCeil(Quot(-base * TurnOne, lambda), TurnOne)

\* maxDistMeters = Math.sqrt(venueWidth ** 2 + venueDepth ** 2), in mm
maxDistMeters(st) ==
    MathSqrt((st.venueWidth * Metre) * (st.venueWidth * Metre)
                 + (st.venueDepth * Metre) * (st.venueDepth * Metre))

\* base_r_trough = base_r - (lambda / 2)
TroughBaseR(base, lambda) == base - RDiv(lambda, 2)

\* a trough loop without `if (r < 0) continue`
TroughDrawnAlways(r) == TRUE

\* the trough loop goes on to draw: not `if (r < 0) continue`
TroughDrawn(r) == r >= 0

\* the callback of selectedSpeakerIds.forEach for the selected speaker, up to
\* the first loop.  With lambda = 0 base_r is 0 and -base_r / lambda is NaN
RingsBegin ==
    /\ overlay.pc = "start"
    /\ viewMode = "Phase"
    /\ \E lambda \in {Wavelength(settings)} :
           overlay' = [overlay EXCEPT
                          !.pc = "peaks",
                          !.nan = (lambda = 0),
                          !.m = IF lambda = 0 THEN 0
                                ELSE RingStart(RingBaseR(speakers[1], settings), lambda)]
    /\ UNCHANGED <<inputs, pending, thrown, activeSpeakers, reMap, imMap, magMap, totals,
                   maxPressure, canvas, soundField, presented, colorCall, interaction>>

\* one iteration of the peak loop.  With m NaN r is NaN: r > maxDistMeters is
\* false, ctx.arc ignores a radius that is not finite, and m++ leaves NaN.
\* ctx.arc throws an IndexSizeError on a negative radius
PeakStep ==
    /\ overlay.pc = "peaks"
    /\ \E lambda \in {Wavelength(settings)}, base \in {RingBaseR(speakers[1], settings)} :
           \E r \in {base + overlay.m * lambda} :
               IF overlay.nan THEN overlay' = [overlay EXCEPT !.turn = ~@]
               ELSE IF r > maxDistMeters(settings)
               THEN overlay' = [overlay EXCEPT
                                   !.pc = "troughs",
                                   !.m = RingStart(TroughBaseR(base, lambda), lambda)]
               ELSE IF r < 0
               THEN overlay' = [overlay EXCEPT !.pc = "peaksThrown"]
               ELSE overlay' = [overlay EXCEPT !.peaks = Append(@, r), !.m = @ + 1]
    /\ UNCHANGED <<inputs, pending, thrown, activeSpeakers, reMap, imMap, magMap, totals,
                   maxPressure, canvas, soundField, presented, colorCall, interaction>>

\* one iteration of the trough loop
TroughStep ==
    /\ overlay.pc = "troughs"
    /\ \E lambda \in {Wavelength(settings)}, base \in {RingBaseR(speakers[1], settings)} :
           \E r \in {TroughBaseR(base, lambda) + overlay.m * lambda} :
               IF r > maxDistMeters(settings)
               THEN overlay' = [overlay EXCEPT !.pc = "done"]
               ELSE IF ~TroughDrawn(r)
               THEN overlay' = [overlay EXCEPT !.skipped = @ + 1, !.m = @ + 1]
               ELSE IF r < 0
               THEN overlay' = [overlay EXCEPT !.pc = "troughsThrown"]
               ELSE overlay' = [overlay EXCEPT !.troughs = Append(@, r), !.m = @ + 1]
    /\ UNCHANGED <<inputs, pending, thrown, activeSpeakers, reMap, imMap, magMap, totals,
                   maxPressure, canvas, soundField, presented, colorCall, interaction>>

\* a call of the exported getHeatmapColor
GetHeatmapColor ==
    /\ colorCall.fn = "getHeatmapColor"
    /\ ~colorCall.called
    /\ colorCall' = [colorCall EXCEPT !.called = TRUE, !.rgb = getHeatmapColor(colorCall.arg)]
    /\ UNCHANGED <<inputs, pending, thrown, activeSpeakers, reMap, imMap, magMap, totals,
                   maxPressure, canvas, soundField, presented, overlay, interaction>>

\* a call of the exported getPhaseColor
GetPhaseColor ==
    /\ colorCall.fn = "getPhaseColor"
    /\ ~colorCall.called
    /\ colorCall' = [colorCall EXCEPT !.called = TRUE, !.rgb = getPhaseColor(colorCall.arg)]
    /\ UNCHANGED <<inputs, pending, thrown, activeSpeakers, reMap, imMap, magMap, totals,
                   maxPressure, canvas, soundField, presented, overlay, interaction>>

(***************************************************************************)
(* The solve as a function of an input snapshot: the snapshot is drawn     *)
(* from bounded sets and the effect runs on it                             *)
(***************************************************************************)
MaxSpeakers == 2
GridW == 3
GridH == 2
FineW == 200

\* App's initial settings (resolution is read nowhere)
DefaultSettings ==
    [frequency |-> 60, temperature |-> 20000, venueWidth |-> 20, venueDepth |-> 20,
     dynamicRange |-> 36]

\* no drag is set up
Released == isDragging = FALSE /\ dragStart = Null /\ initialPositions = NoPositions

NothingSelected == selectedSpeakerIds = << >> /\ Released

NotRun ==
    /\ pending = TRUE
    /\ thrown = "none"
    /\ activeSpeakers = << >>
    /\ reMap = << >>
    /\ imMap = << >>
    /\ magMap = << >>
    /\ totals = << >>
    /\ maxPressure = 0
    /\ canvas = Blank(dimensions.w, dimensions.h)
    /\ soundField = [called |-> FALSE]
    /\ presented = Unpainted

Speaker(i, gid, x, y, gain, delay, polarity, mute, solo) ==
    [id |-> i, groupId |-> gid, x |-> x, y |-> y, gain |-> gain, delay |-> delay,
     polarity |-> polarity, mute |-> mute, solo |-> solo]

\* one or two sources of a field snapshot: positions (mm), gains (dB), delays (ms)
FieldXs == {0, 500}
FieldGains == {0, -6}
FieldDelays == {0, 4}

Acoustic == [x : FieldXs, gain : FieldGains, delay : FieldDelays, polarity : BOOLEAN]

FieldSpeakerLists ==
    UNION {{[i \in 1 .. n |->
                Speaker(i, Undefined, a[i].x, 0, a[i].gain, a[i].delay,
                        a[i].polarity, FALSE, FALSE)] : a \in [1 .. n -> Acoustic]}
           : n \in 0 .. 2}

\* App's initial speakers: Sub 1 at (-0.5, 0) and Sub 2 at (0.5, 0)
InitialSpeakers ==
    <<Speaker(1, Undefined, -500, 0, 0, 0, FALSE, FALSE, FALSE),
      Speaker(2, Undefined, 500, 0, 0, 0, FALSE, FALSE, FALSE)>>

\* a snapshot of one or two sources on a small canvas, or App's initial
\* speakers on a canvas of 100 x 100
FieldInit ==
    /\ \/ /\ speakers \in FieldSpeakerLists
          /\ dimensions \in [w : 0 .. GridW, h : 0 .. GridH]
       \/ /\ speakers = InitialSpeakers
          /\ dimensions = [w |-> 100, h |-> 100]
    /\ groups = << >>
    /\ settings = DefaultSettings
    /\ viewMode \in {"SPL", "Phase"}
    /\ NotRun
    /\ overlay = NoRings
    /\ colorCall = NoColorCall
    /\ NothingSelected

FieldSpec == FieldInit /\ [][HeatmapEffect]_vars

\* mute, solo and group membership of a snapshot: speaker i stands at its own
\* place with its own gain, delay and polarity; at most one group, of id 1, so
\* that groupId 2 matches no group
PlaceX(i) == 500 * i - 1000
PlaceGain(i) == 3 - 3 * i
PlaceDelay(i) == 2 * (i - 1)

Flags == [groupId : {Undefined, 1, 2}, mute : BOOLEAN, solo : BOOLEAN]

ActiveSpeakerLists ==
    UNION {{[i \in 1 .. n |->
                Speaker(i, f[i].groupId, PlaceX(i), -9000, PlaceGain(i), PlaceDelay(i),
                        i % 2 = 0, f[i].mute, f[i].solo)] : f \in [1 .. n -> Flags]}
           : n \in 0 .. MaxSpeakers}

ActiveGroupLists ==
    {<< >>} \cup {<<[id |-> 1, mute |-> m, solo |-> o]>> : m \in BOOLEAN, o \in BOOLEAN}

ActiveInit ==
    /\ speakers \in ActiveSpeakerLists
    /\ groups \in ActiveGroupLists
    /\ settings = DefaultSettings
    /\ viewMode \in {"SPL", "Phase"}
    /\ dimensions = [w |-> 2, h |-> 1]
    /\ NotRun
    /\ overlay = NoRings
    /\ colorCall = NoColorCall
    /\ NothingSelected

ActiveSpec == ActiveInit /\ [][HeatmapEffect]_vars

\* a canvas one row high and FineW wide, cells 20 m / FineW apart along y = -10 m,
\* or ten rows high and a tenth as wide; one source on the row y = -10 m
FineXs == {0, 30, 50, 70}

FineSpeakerLists ==
    {<<Speaker(1, Undefined, x, -10000, g, d, p, FALSE, FALSE)>> :
        x \in FineXs, g \in FieldGains, d \in FieldDelays, p \in BOOLEAN}

FineInit ==
    /\ speakers \in FineSpeakerLists
    /\ groups = << >>
    /\ settings = DefaultSettings
    /\ viewMode \in {"SPL", "Phase"}
    /\ dimensions \in {[w |-> FineW, h |-> 1], [w |-> FineW \div 10, h |-> 10]}
    /\ NotRun
    /\ overlay = NoRings
    /\ colorCall = NoColorCall
    /\ NothingSelected

FineSpec == FineInit /\ [][HeatmapEffect]_vars

\* computeSoundField takes any two numbers as width and height
MaxDim == 2

SoundFieldInit ==
    /\ speakers \in ActiveSpeakerLists
    /\ groups = << >>
    /\ settings = DefaultSettings
    /\ viewMode = "SPL"
    /\ dimensions \in [w : -MaxDim .. MaxDim, h : -MaxDim .. MaxDim]
    /\ NotRun
    /\ overlay = NoRings
    /\ colorCall = NoColorCall
    /\ NothingSelected

SoundFieldSpec == SoundFieldInit /\ [][ComputeSoundField]_vars

\* the colour maps take any number: intensities from -ColorMargin below 0 to
\* ColorMargin above 1, angles of up to MaxAngle mrad either way
ColorMargin == 5000
MaxAngle == 8191

\* App's initial state around a call of a colour map
AppInitial ==
    /\ speakers = InitialSpeakers
    /\ groups = << >>
    /\ settings = DefaultSettings
    /\ viewMode = "SPL"
    /\ dimensions = [w |-> 1, h |-> 1]
    /\ NotRun
    /\ selectedSpeakerIds = <<1>>
    /\ Released

HeatmapColorInit ==
    /\ AppInitial
    /\ overlay = NoRings
    /\ colorCall \in {[fn |-> "getHeatmapColor", arg |-> v, called |-> FALSE, rgb |-> << >>] :
                          v \in -ColorMargin .. IntensityOne + ColorMargin}

HeatmapColorSpec == HeatmapColorInit /\ [][GetHeatmapColor]_vars

PhaseColorInit ==
    /\ AppInitial
    /\ overlay = NoRings
    /\ colorCall \in {[fn |-> "getPhaseColor", arg |-> a, called |-> FALSE, rgb |-> << >>] :
                          a \in -MaxAngle .. MaxAngle}

PhaseColorSpec == PhaseColorInit /\ [][GetPhaseColor]_vars

(***************************************************************************)
(* App and SimulationCanvas: the handlers of the user's operations.  Ids   *)
(* are numbers; a speaker's id and a group's id are compared with nothing  *)
(* but ids of their own kind.  Mouse positions are whole pixels.           *)
(***************************************************************************)
\* clickedId = null, and 15 pixels
ClickedNothing == 0
HitRadius == 1500

\* the lists grow no longer than this, and a speaker is copied while it is
\* no farther down the canvas than this (mm)
MaxSources == 3
MaxGroups == 2
MaxCopyY == 0

SpeakerIds(spk) == {spk[i].id : i \in DOMAIN spk}

GroupIds(grp) == {grp[j].id : j \in DOMAIN grp}

\* list.map(s => s.id)
IdList(list) == [i \in DOMAIN list |-> list[i].id]

\* Array.prototype.includes
Includes(ids, id) == \E n \in DOMAIN ids : ids[n] = id

\* generateId: up to nine base-36 digits of Math.random(), taken to be an id
\* that is not in use; ids not in use are interchangeable and the least is taken
generateId(used) ==
    CHOOSE n \in 1 .. Cardinality(used) + 1 :
        n \notin used /\ \A m \in 1 .. n - 1 : m \in used

\* the ids a new speaker's id is kept apart from
SpeakerIdsInUse ==
    SpeakerIds(speakers) \cup {selectedSpeakerIds[n] : n \in DOMAIN selectedSpeakerIds}
        \cup DOMAIN initialPositions

\* the ids a new group's id is kept apart from
GroupIdsInUse == GroupIds(groups) \cup {speakers[i].groupId : i \in DOMAIN speakers}

\* Controls: selectedSpeakers, uniqueGroupIds and commonGroupId || ""
selectedSpeakers == SelectSeq(speakers, LAMBDA s : Includes(selectedSpeakerIds, s.id))

uniqueGroupIds ==
    {selectedSpeakers[i].groupId : i \in DOMAIN selectedSpeakers} \ {Undefined}

commonGroupId ==
    IF Cardinality(uniqueGroupIds) = 1 THEN CHOOSE g \in uniqueGroupIds : TRUE ELSE Undefined

\* handleUpdateSpeakers(ids, { groupId })
handleUpdateSpeakers(spk, ids, gid) ==
    [i \in DOMAIN spk |->
        IF Includes(ids, spk[i].id) THEN [spk[i] EXCEPT !.groupId = gid] ELSE spk[i]]

\* a handleDeleteGroup that forgets the speakers
UnassignNobody(spk, gid) == spk

\* handleDeleteGroup: the speakers after the group is gone
Unassign(spk, gid) ==
    [i \in DOMAIN spk |->
        IF spk[i].groupId = gid THEN [spk[i] EXCEPT !.groupId = Undefined] ELSE spk[i]]

\* the speakers and the selection change and nothing else does
OnlySpeakersAndSelection ==
    UNCHANGED <<groups, settings, viewMode, dimensions, thrown, activeSpeakers, reMap,
                imMap, magMap, totals, maxPressure, canvas, soundField, presented,
                overlay, colorCall, isDragging, dragStart, initialPositions>>

\* the speakers and the groups change and nothing else does
OnlySpeakersAndGroups ==
    UNCHANGED <<settings, viewMode, dimensions, thrown, activeSpeakers, reMap, imMap,
                magMap, totals, maxPressure, canvas, soundField, presented, overlay,
                colorCall, interaction>>

\* handleCreateGroup(speakerIds): "+ New Group" passes [], "Create Group" the
\* selection
handleCreateGroup(speakerIds) ==
    /\ Len(groups) < MaxGroups
    /\ \E id \in {generateId(GroupIdsInUse)} :
           /\ groups' = Append(groups, [id |-> id, mute |-> FALSE, solo |-> FALSE])
           /\ speakers' = IF Len(speakerIds) > 0
                          THEN handleUpdateSpeakers(speakers, speakerIds, id)
                          ELSE speakers
    /\ pending' = TRUE
    /\ OnlySpeakersAndGroups

\* the "Create Group" button is rendered while speakers are selected that have
\* no common group
CreateGroupButton ==
    /\ Len(selectedSpeakers) > 0
    /\ commonGroupId = Undefined
    /\ handleCreateGroup(selectedSpeakerIds)

\* handleDeleteGroup, from the "Delete Group" button of a group
handleDeleteGroup(groupId) ==
    /\ groups' = SelectSeq(groups, LAMBDA g : g.id # groupId)
    /\ speakers' = Unassign(speakers, groupId)
    /\ pending' = TRUE
    /\ OnlySpeakersAndGroups

\* the Group Assignment select: "No Group" or one of the groups, other than
\* the value on show
GroupAssignment(val) ==
    /\ Len(selectedSpeakers) > 0
    /\ val # commonGroupId
    /\ speakers' = handleUpdateSpeakers(speakers, selectedSpeakerIds, val)
    /\ pending' = TRUE
    /\ UNCHANGED <<groups, settings, viewMode, dimensions, thrown, activeSpeakers, reMap,
                   imMap, magMap, totals, maxPressure, canvas, soundField, presented,
                   overlay, colorCall, interaction>>

\* the "Select Group Members" button of a group
SelectGroupMembers(groupId) ==
    /\ selectedSpeakerIds' =
           IdList(SelectSeq(speakers, LAMBDA s : s.groupId = groupId))
    /\ UNCHANGED <<inputs, pending, thrown, activeSpeakers, reMap, imMap, magMap, totals,
                   maxPressure, canvas, soundField, presented, overlay, colorCall,
                   isDragging, dragStart, initialPositions>>

\* handleAddSpeaker
handleAddSpeaker ==
    /\ Len(speakers) < MaxSources
    /\ \E id \in {generateId(SpeakerIdsInUse)} :
           /\ speakers' = Append(speakers,
                                 Speaker(id, Undefined, 0, 0, 0, 0, FALSE, FALSE, FALSE))
           /\ selectedSpeakerIds' = <<id>>
    /\ pending' = TRUE
    /\ OnlySpeakersAndSelection

\* a handleRemoveSpeakers that leaves the selection as it is
KeepSelection(ids) == ids

\* handleRemoveSpeakers: setSelectedSpeakerIds([])
ClearSelection(ids) == << >>

\* handleRemoveSpeakers(selectedIds), from "Remove Selected"
handleRemoveSpeakers ==
    /\ Len(selectedSpeakers) > 0
    /\ speakers' = SelectSeq(speakers, LAMBDA s : ~Includes(selectedSpeakerIds, s.id))
    /\ selectedSpeakerIds' = ClearSelection(selectedSpeakerIds)
    /\ pending' = TRUE
    /\ OnlySpeakersAndSelection

\* handleCloneSpeaker(firstSelected.id), from "Duplicate", rendered while one
\* id is selected; the copy keeps the original's groupId
handleCloneSpeaker ==
    /\ Len(selectedSpeakers) > 0
    /\ Len(selectedSpeakerIds) = 1
    /\ Len(speakers) < MaxSources
    /\ selectedSpeakers[1].y <= MaxCopyY
    /\ \E original \in {selectedSpeakers[1]}, id \in {generateId(SpeakerIdsInUse)} :
           /\ speakers' = Append(speakers,
                                 [original EXCEPT !.id = id,
                                                  !.x = F64(original.x + Metre \div 2),
                                                  !.y = F64(original.y + Metre \div 2)])
           /\ selectedSpeakerIds' = <<id>>
    /\ pending' = TRUE
    /\ OnlySpeakersAndSelection

\* the places, delays (ms) and polarities of the speakers of a preset
PresetSpeakers(type, st) ==
    LET lambda == Wavelength(st)
        spacing == RDiv(lambda, 4)
        delayMs == RDiv(Metre, 4 * st.frequency)
    IN  CASE type = "broadside" ->
                 [i \in 1 .. 4 |->
                     [x |-> Metre * i - (5 * Metre) \div 2, y |-> 0, delay |-> 0,
                      polarity |-> FALSE]]
          [] type = "endfire" ->
                 [i \in 1 .. 4 |->
                     [x |-> 0, y |-> (i - 1) * spacing - RDiv(3 * spacing, 2),
                      delay |-> RDiv((i - 1) * Metre, 4 * st.frequency),
                      polarity |-> FALSE]]
          [] type = "gradient" ->
                 <<[x |-> 0, y |-> 0, delay |-> 0, polarity |-> FALSE],
                   [x |-> 0, y |-> -spacing, delay |-> delayMs, polarity |-> TRUE]>>
          [] type = "inverted_stack" ->
                 <<[x |-> -(3 * Metre) \div 5, y |-> 0, delay |-> 0, polarity |-> FALSE],
                   [x |-> 0, y |-> Metre \div 10, delay |-> 0, polarity |-> TRUE],
                   [x |-> (3 * Metre) \div 5, y |-> 0, delay |-> 0, polarity |-> FALSE]>>

\* the first n ids not in use
RECURSIVE generateIds(_, _)
generateIds(n, used) ==
    IF n = 0 THEN << >>
    ELSE <<generateId(used)>> \o generateIds(n - 1, used \cup {generateId(used)})

\* handleApplyPreset: the speakers are replaced, the groups are left alone
handleApplyPreset(type) ==
    /\ \E new \in {PresetSpeakers(type, settings)} :
         \E ids \in {generateIds(Len(new), SpeakerIdsInUse)} :
           /\ speakers' = [i \in DOMAIN new |->
                              Speaker(ids[i], Undefined, new[i].x, new[i].y, 0,
                                      new[i].delay, new[i].polarity, FALSE, FALSE)]
           /\ selectedSpeakerIds' = <<ids[1]>>
    /\ pending' = TRUE
    /\ OnlySpeakersAndSelection

\* metersToPixels, in 1/100 pixel; meters in mm, venueSize in metres
metersToPixels(meters, canvasSize, venueSize) ==
    RDiv(meters * canvasSize, venueSize * 10) + 50 * canvasSize

\* the hit test of handleMouseDown: the last speaker of the list less than
\* 15 pixels from the mouse, or nothing
HitTest(spk, mouseX, mouseY, dim, st) ==
    LET hits == {i \in DOMAIN spk :
                    LET ex == 100 * mouseX - metersToPixels(spk[i].x, dim.w, st.venueWidth)
                        ey == 100 * mouseY - metersToPixels(spk[i].y, dim.h, st.venueDepth)
                    IN  ex * ex + ey * ey < HitRadius * HitRadius}
    IN  IF hits = {} THEN ClickedNothing
        ELSE spk[CHOOSE i \in hits : \A j \in hits : j <= i].id

\* newSelection of handleMouseDown
NewSelection(sel, clickedId, isShift) ==
    IF isShift
    THEN IF Includes(sel, clickedId)
         THEN SelectSeq(sel, LAMBDA id : id # clickedId)
         ELSE Append(sel, clickedId)
    ELSE IF ~Includes(sel, clickedId) THEN <<clickedId>> ELSE sel

\* a snapshot that takes the clicked speaker only
PositionsOfFirst(spk, sel) ==
    [id \in {spk[i].id : i \in {j \in DOMAIN spk : Len(sel) > 0 /\ spk[j].id = sel[1]}} |->
        LET i == CHOOSE j \in DOMAIN spk : spk[j].id = id
        IN  [x |-> spk[i].x, y |-> spk[i].y]]

\* positions of handleMouseDown: the places of the speakers of the new selection
Positions(spk, sel) ==
    [id \in {spk[i].id : i \in {j \in DOMAIN spk : Includes(sel, spk[j].id)}} |->
        LET i == CHOOSE j \in DOMAIN spk :
                     spk[j].id = id /\ \A n \in DOMAIN spk : spk[n].id = id => n <= j
        IN  [x |-> spk[i].x, y |-> spk[i].y]]

\* handleMouseDown on the overlay canvas
handleMouseDown(mouseX, mouseY, isShift) ==
    /\ \E clickedId \in {HitTest(speakers, mouseX, mouseY, dimensions, settings)} :
           IF clickedId # ClickedNothing
           THEN \E newSelection \in {NewSelection(selectedSpeakerIds, clickedId, isShift)} :
                    /\ selectedSpeakerIds' = newSelection
                    /\ isDragging' = TRUE
                    /\ dragStart' = [x |-> mouseX, y |-> mouseY]
                    /\ initialPositions' = Positions(speakers, newSelection)
           ELSE /\ selectedSpeakerIds' = << >>
                /\ UNCHANGED <<isDragging, dragStart, initialPositions>>
    /\ UNCHANGED <<inputs, pending, thrown, activeSpeakers, reMap, imMap, magMap, totals,
                   maxPressure, canvas, soundField, presented, overlay, colorCall>>

\* deltaMeters of handleMouseMove, in mm
DeltaMeters(deltaPixels, canvasSize, venueSize) ==
    Quot(deltaPixels * venueSize * Metre, canvasSize)

\* the speakers after the onUpdateSpeakerPosition calls of handleMouseMove
Dragged(spk, sel, initial, dx, dy) ==
    [i \in DOMAIN spk |->
        IF Includes(sel, spk[i].id) /\ spk[i].id \in DOMAIN initial
        THEN [spk[i] EXCEPT !.x = F64(initial[spk[i].id].x + dx),
                            !.y = F64(initial[spk[i].id].y + dy)]
        ELSE spk[i]]

\* the speakers stay within the venue
InVenue(spk, st) ==
    \A i \in DOMAIN spk :
        /\ 2 * Abs(spk[i].x) <= st.venueWidth * Metre
        /\ 2 * Abs(spk[i].y) <= st.venueDepth * Metre

\* handleMouseMove on the overlay canvas (over a canvas of no width or height
\* there is no mouse); moves that take a speaker out of the venue are left out
handleMouseMove(mouseX, mouseY) ==
    /\ dimensions.w > 0 /\ dimensions.h > 0
    /\ IF ~isDragging \/ dragStart = Null \/ Len(selectedSpeakerIds) = 0
       THEN UNCHANGED <<speakers, pending>>
       ELSE \E moved \in {Dragged(speakers, selectedSpeakerIds, initialPositions,
                                  DeltaMeters(mouseX - dragStart.x, dimensions.w,
                                              settings.venueWidth),
                                  DeltaMeters(mouseY - dragStart.y, dimensions.h,
                                              settings.venueDepth))} :
                /\ InVenue(moved, settings)
                /\ speakers' = moved
                /\ pending' = TRUE
    /\ UNCHANGED <<groups, settings, viewMode, dimensions, thrown, activeSpeakers, reMap,
                   imMap, magMap, totals, maxPressure, canvas, soundField, presented,
                   overlay, colorCall, interaction>>

\* handleMouseUp, of mouseup and of mouseleave
handleMouseUp ==
    /\ isDragging' = FALSE
    /\ dragStart' = Null
    /\ initialPositions' = NoPositions
    /\ UNCHANGED <<inputs, pending, thrown, activeSpeakers, reMap, imMap, magMap, totals,
                   maxPressure, canvas, soundField, presented, overlay, colorCall,
                   selectedSpeakerIds>>

\* the mouse on an overlay canvas of 40 x 4 pixels (0.5 m and 5 m to the pixel):
\* column 2 is off every speaker of App's initial state, column 5 is on Sub 1
\* only, column 19 on both
SpeakerXs == {5, 19}
MouseXs == {2} \cup SpeakerXs
MouseYs == {2}
PresetTypes == {"broadside", "endfire", "gradient", "inverted_stack"}

\* every preset makes speakers without a groupId; where only that matters the
\* preset of two speakers is applied
GroupPresetTypes == {"gradient"}

\* App's initial state with the canvas at 40 x 4 pixels
AppInit ==
    /\ speakers = InitialSpeakers
    /\ groups = << >>
    /\ settings = DefaultSettings
    /\ viewMode = "SPL"
    /\ dimensions = [w |-> 40, h |-> 4]
    /\ NotRun
    /\ overlay = NoRings
    /\ colorCall = NoColorCall
    /\ selectedSpeakerIds = <<1>>
    /\ Released

\* App's initial state, or that state after "Create Group" and a click on Sub 2
\* (Sub 1 in group 1, Sub 2 selected)
SelectionInit ==
    /\ \/ /\ speakers = InitialSpeakers
          /\ groups = << >>
          /\ selectedSpeakerIds = <<1>>
       \/ /\ speakers = [InitialSpeakers EXCEPT ![1].groupId = 1]
          /\ groups = <<[id |-> 1, mute |-> FALSE, solo |-> FALSE]>>
          /\ selectedSpeakerIds = <<2>>
    /\ settings = DefaultSettings
    /\ viewMode = "SPL"
    /\ dimensions = [w |-> 40, h |-> 4]
    /\ NotRun
    /\ overlay = NoRings
    /\ colorCall = NoColorCall
    /\ Released

MouseDownNext ==
    \E mouseX \in MouseXs, mouseY \in MouseYs, isShift \in BOOLEAN :
        handleMouseDown(mouseX, mouseY, isShift)

\* the clicks and shift-clicks on a speaker
SpeakerClickNext ==
    \E mouseX \in SpeakerXs, mouseY \in MouseYs, isShift \in BOOLEAN :
        handleMouseDown(mouseX, mouseY, isShift)

\* the operations that change the speaker list or the selection.  The pointer
\* that works Controls has left the overlay canvas, and mouseleave has run
\* handleMouseUp
SelectionNext ==
    \/ ~isDragging /\ handleAddSpeaker
    \/ ~isDragging /\ handleRemoveSpeakers
    \/ ~isDragging /\ handleCloneSpeaker
    \/ ~isDragging /\ \E type \in PresetTypes : handleApplyPreset(type)
    \/ ~isDragging /\ \E g \in GroupIds(groups) : SelectGroupMembers(g)
    \/ MouseDownNext
    \/ handleMouseUp

SelectionSpec == SelectionInit /\ [][SelectionNext]_vars

\* the operations that change the groups or a speaker's groupId, and the
\* clicks that change the selection they work on
GroupNext ==
    \/ ~isDragging /\ handleCreateGroup(<< >>)
    \/ ~isDragging /\ CreateGroupButton
    \/ ~isDragging /\ \E g \in GroupIds(groups) : handleDeleteGroup(g)
    \/ ~isDragging /\ \E val \in {Undefined} \cup GroupIds(groups) : GroupAssignment(val)
    \/ ~isDragging /\ handleCloneSpeaker
    \/ ~isDragging /\ \E type \in GroupPresetTypes : handleApplyPreset(type)
    \/ SpeakerClickNext
    \/ handleMouseUp

GroupSpec == AppInit /\ [][GroupNext]_vars

\* the mouse of a drag on the overlay canvas of 40 x 4 pixels: 17 columns are
\* 8.5 m and 2 rows are 10 m
DragXs == {2, 19, 36}
DragYs == {1, 3}

\* App's initial state, or that state with the X field of Sub 2 set to 0.501
DragInit ==
    /\ speakers \in {InitialSpeakers, [InitialSpeakers EXCEPT ![2].x = 501]}
    /\ groups = << >>
    /\ settings = DefaultSettings
    /\ viewMode = "SPL"
    /\ dimensions = [w |-> 40, h |-> 4]
    /\ NotRun
    /\ overlay = NoRings
    /\ colorCall = NoColorCall
    /\ selectedSpeakerIds = <<1>>
    /\ Released

\* the mouse handlers of the overlay canvas
DragNext ==
    \/ \E mouseX \in DragXs, mouseY \in DragYs, isShift \in BOOLEAN :
           handleMouseDown(mouseX, mouseY, isShift)
    \/ \E mouseX \in DragXs, mouseY \in DragYs : handleMouseMove(mouseX, mouseY)
    \/ handleMouseUp

DragSpec == DragInit /\ [][DragNext]_vars

\* the values the user's actions and the ResizeObserver bring, on canvases of
\* one or two cells: no speaker, one speaker in group 1, App's two speakers;
\* no group or group 1 muted; 60 Hz or 100 Hz
ReactiveSpeakerLists ==
    {<< >>, <<Speaker(1, 1, -500, 0, 0, 0, FALSE, FALSE, FALSE)>>, InitialSpeakers}

ReactiveGroupLists == {<< >>, <<[id |-> 1, mute |-> TRUE, solo |-> FALSE]>>}

ReactiveSettings == {DefaultSettings, [DefaultSettings EXCEPT !.frequency = 100]}

ReactiveDimensions == {[w |-> 1, h |-> 1], [w |-> 2, h |-> 1], [w |-> 0, h |-> 1]}

\* App and SimulationCanvas mounted: the first run of the effect is scheduled
ReactiveInit ==
    /\ speakers = InitialSpeakers
    /\ groups = << >>
    /\ settings = DefaultSettings
    /\ viewMode = "SPL"
    /\ dimensions = [w |-> 2, h |-> 1]
    /\ NotRun
    /\ overlay = NoRings
    /\ colorCall = NoColorCall
    /\ NothingSelected

ReactiveNext ==
    \/ \E v \in ReactiveSpeakerLists : SetSpeakers(v)
    \/ \E v \in ReactiveGroupLists : SetGroups(v)
    \/ \E v \in ReactiveSettings : SetSettings(v)
    \/ \E v \in {"SPL", "Phase"} : SetViewMode(v)
    \/ \E v \in ReactiveDimensions : SetDimensions(v)
    \/ HeatmapEffect

ReactiveSpec == ReactiveInit /\ [][ReactiveNext]_vars

\* the effect and a caller of computeSoundField on the same speakers and groups
ConsumersNext == HeatmapEffect \/ ComputeSoundField

ConsumersSpec == ActiveInit /\ [][ConsumersNext]_vars

\* the selected speaker and the settings of a ring enumeration: the frequency
\* slider runs from 20 to 200 Hz, the delay slider from 0 to 50 ms, and the
\* temperature field takes any number typed into it: -10, 20 and 50 degrees,
\* -546.698 degrees, where c is 1 mm/s, and -600 degrees, where c is negative
RingFrequencies == {20, 60, 200}
RingTemperatures == {-10000, 20000, 50000, -546698, -600000}
RingDelays == {0, 4, 10, 25, 50}

RingInit ==
    /\ speakers \in {<<Speaker(1, Undefined, 0, 0, 0, d, p, FALSE, FALSE)>> :
                         d \in RingDelays, p \in BOOLEAN}
    /\ groups = << >>
    /\ settings \in {[DefaultSettings EXCEPT !.frequency = f, !.temperature = t] :
                         f \in RingFrequencies, t \in RingTemperatures}
    /\ viewMode = "Phase"
    /\ dimensions = [w |-> 1, h |-> 1]
    /\ NotRun
    /\ overlay = [NoRings EXCEPT !.pc = "start"]
    /\ colorCall = NoColorCall
    /\ selectedSpeakerIds = <<1>>
    /\ Released

RingNext == RingsBegin \/ PeakStep \/ TroughStep

RingSpec == RingInit /\ [][RingNext]_vars

\* the callback runs to its end once started: it is synchronous code
RingLiveSpec == RingSpec /\ WF_vars(RingNext)


(***************************************************************************)
(* Properties of the solve                                                 *)
(***************************************************************************)
\* the effect has run on the snapshot and ended normally
Solved == ~pending /\ thrown = "none"

\* the cells of the grid
Cells == 0 .. dimensions.w * dimensions.h - 1

\* the groups a speaker's groupId names
GroupsOf(s) == {j \in DOMAIN groups : groups[j].id = s.groupId}

EffectivelyMuted(s) == s.mute \/ \E j \in GroupsOf(s) : groups[j].mute

EffectivelySoloed(s) == s.solo \/ \E j \in GroupsOf(s) : groups[j].solo

AnySolo ==
    \/ \E j \in DOMAIN speakers : speakers[j].solo
    \/ \E j \in DOMAIN groups : groups[j].solo

ShouldBeActive(s) == ~EffectivelyMuted(s) /\ (AnySolo => EffectivelySoloed(s))

InActiveSet(s) == \E a \in DOMAIN activeSpeakers : activeSpeakers[a].id = s.id

\* C1: after a run of the effect a source is in the active set exactly when
\* neither it nor its group is muted and, if any source or any group has solo
\* set, it or its group has solo set
ActiveSetRule ==
    Solved => \A i \in DOMAIN speakers : InActiveSet(speakers[i]) <=> ShouldBeActive(speakers[i])

\* a soloed group: a member without solo of its own is active, an unmuted
\* source outside the group is not
ActiveSetRuleWitness ==
    /\ Solved
    /\ \E i, j \in DOMAIN speakers :
          /\ ~speakers[i].solo /\ InActiveSet(speakers[i])
          /\ ~speakers[j].solo /\ ~EffectivelyMuted(speakers[j]) /\ ~InActiveSet(speakers[j])
    /\ \A i \in DOMAIN speakers : ~speakers[i].solo

\* C2: an inactive source contributes nothing: the field, the maximum and the
\* pixels are those of the run on the input with every inactive source removed
InactiveContributesNothing ==
    Solved =>
        LET alone == HeatmapRun(SelectSeq(speakers, ShouldBeActive), groups, settings,
                                viewMode, dimensions.w, dimensions.h, canvas)
        IN  /\ reMap = alone.reMap
            /\ imMap = alone.imMap
            /\ magMap = alone.magMap
            /\ maxPressure = alone.maxPressure
            /\ canvas = alone.canvas

\* sources A (no solo) and B (solo), neither muted: B alone is in the field
InactiveContributesNothingWitness ==
    /\ Solved
    /\ Len(speakers) = 2
    /\ \A i \in DOMAIN speakers : ~EffectivelyMuted(speakers[i])
    /\ ~speakers[1].solo /\ speakers[2].solo
    /\ ~InActiveSet(speakers[1]) /\ InActiveSet(speakers[2])
    /\ magMap # << >>

\* C3: when no source is active every pixel is the background colour
\* (15, 23, 42) in SPL mode and in Phase mode, and nothing is normalised: no
\* field buffer is allocated and maxPressure stays 0
EmptyActiveSetIsBackground ==
    (Solved /\ \A i \in DOMAIN speakers : ~ShouldBeActive(speakers[i])) =>
        /\ canvas = [i \in Cells |-> <<15, 23, 42>>]
        /\ reMap = << >> /\ imMap = << >> /\ magMap = << >>
        /\ maxPressure = 0

\* two unmuted sources silenced by the solo of a group without members, SPL mode
EmptyActiveSetIsBackgroundWitness ==
    /\ Solved
    /\ viewMode = "SPL"
    /\ Len(speakers) = 2
    /\ \A i \in DOMAIN speakers : ~speakers[i].mute /\ GroupsOf(speakers[i]) = {}
    /\ \E j \in DOMAIN groups : groups[j].solo
    /\ canvas = [i \in Cells |-> Background]

\* C4: a solve requested with width <= 0 or height <= 0 is rejected with an
\* error before any grid buffer is allocated, and returns no buffer (whatever
\* the error is called: the claim names it InvalidDimensions)
InvalidDimensionsRejected ==
    (soundField.called /\ (dimensions.w <= 0 \/ dimensions.h <= 0)) =>
        soundField.thrown # "none" /\ ~soundField.allocated

\* computeSoundField(0, 2, ...) returned a buffer of length 0 without an error
InvalidDimensionsRejectedWitness ==
    /\ soundField.called
    /\ dimensions = [w |-> 0, h |-> 2]
    /\ soundField.thrown = "none" /\ soundField.allocated /\ soundField.length = 0

\* the position of cell i, in mm
CellX(i) == pixelsToMeters(i % dimensions.w, dimensions.w, settings.venueWidth)

CellY(i) == pixelsToMeters(i \div dimensions.w, dimensions.h, settings.venueDepth)

\* the distance of cell i from active source a, in mm
CellR(a, i) == SourceR(a, CellX(i), CellY(i))

\* linearGain / 0.1 in 1/PressureOne
GainOverFloor(a) == RDiv(a.linGain * ((PressureOne * Metre) \div GainOne), 100)

RECURSIVE SumOfGainOverFloor(_)
SumOfGainOverFloor(n) ==
    IF n = 0 THEN 0 ELSE SumOfGainOverFloor(n - 1) + GainOverFloor(activeSpeakers[n])

\* C5: for every cell and every active source, a source standing exactly on the
\* cell included, the divisor is at least 0.1 m and the contribution at most
\* linearGain / 0.1 in magnitude; every cell's re, im and magnitude is a number,
\* no larger than the sum of those bounds
DistanceFloorBoundsContribution ==
    (Solved /\ Len(activeSpeakers) > 0) =>
        \A i \in Cells :
            /\ \A n \in DOMAIN activeSpeakers :
                  LET a == activeSpeakers[n]
                      c == Contribution(a, CellX(i), CellY(i), WaveNumber(settings))
                  IN  /\ SourceDist(CellR(a, i)) >= 100
                      /\ SourceMag(a, CellR(a, i)) <= GainOverFloor(a)
                      /\ Abs(c[1]) <= GainOverFloor(a)
                      /\ Abs(c[2]) <= GainOverFloor(a)
            /\ reMap[i] \in Int /\ imMap[i] \in Int /\ magMap[i] \in Nat
            /\ Abs(totals[i].re) <= SumOfGainOverFloor(Len(activeSpeakers))
            /\ Abs(totals[i].im) <= SumOfGainOverFloor(Len(activeSpeakers))
            /\ totals[i].pressure <= SumOfGainOverFloor(Len(activeSpeakers)) + 1

\* one source standing exactly on a cell: the cell's magnitude is linearGain / 0.1
DistanceFloorBoundsContributionWitness ==
    /\ Solved
    /\ Len(activeSpeakers) = 1
    /\ \E i \in Cells :
          /\ CellR(activeSpeakers[1], i) = 0
          /\ totals[i].pressure = GainOverFloor(activeSpeakers[1])

\* C6 as stated: the phase is taken at the clamped distance too, so that all
\* cells closer than 0.1 m to a source receive the same contribution from it
SameContributionWithinFloor ==
    (Solved /\ Len(activeSpeakers) = 1) =>
        \A i, j \in Cells :
            (CellR(activeSpeakers[1], i) < 100 /\ CellR(activeSpeakers[1], j) < 100) =>
                totals[i].re = totals[j].re /\ totals[i].im = totals[j].im

\* C6: the magnitude of a contribution is taken at the distance clamped to
\* 0.1 m and its phase at the distance itself: a cell closer than 0.1 m to a
\* source receives linearGain / 0.1 at the phase -k * r + phaseShift of its own r
PhaseFollowsTrueDistance ==
    (Solved /\ Len(activeSpeakers) = 1) =>
        \A i \in Cells :
            LET a == activeSpeakers[1]
                r == CellR(a, i)
                phase == -RDiv(WaveNumber(settings) * r, WaveOne) + a.phaseShift
            IN  r < 100 =>
                   /\ totals[i].re = RDiv(GainOverFloor(a) * MathCos(phase), TrigOne)
                   /\ totals[i].im = RDiv(GainOverFloor(a) * MathSin(phase), TrigOne)

\* two cells closer than 0.1 m to the source, with different contributions
PhaseFollowsTrueDistanceWitness ==
    /\ Solved
    /\ Len(activeSpeakers) = 1
    /\ \E i, j \in Cells :
          /\ CellR(activeSpeakers[1], i) < 100
          /\ CellR(activeSpeakers[1], j) < 100
          /\ totals[i].re # totals[j].re

\* C7 as stated: maxPressure is the largest magnitude the grid holds, so that
\* in SPL mode no cell's intensity exceeds 1 and a cell whose magnitude is
\* maxPressure has intensity exactly 1
MaxPressureIsGridMaximum ==
    (Solved /\ Len(activeSpeakers) > 0) =>
        /\ \A i \in Cells : magMap[i] <= maxPressure
        /\ \E i \in Cells : magMap[i] = maxPressure
        /\ \A i \in Cells :
              /\ Intensity(magMap[i], maxPressure, settings) <= IntensityOne
              /\ magMap[i] = maxPressure =>
                    Intensity(magMap[i], maxPressure, settings) = IntensityOne

\* C7: maxPressure is the largest pressure the grid loop computed, and some cell
\* attains it; the magnitude a cell stores is that pressure rounded to a 32-bit
\* float, at most maxPressure so rounded, so that in SPL mode a cell's intensity
\* exceeds 1 by no more than that rounding (2 units of 1/IntensityOne here), is
\* exactly 1 where the stored magnitude equals maxPressure, and is within that
\* rounding of 1 for every cell that stores the largest magnitude
MaxPressureIsLargestComputed ==
    (Solved /\ Len(activeSpeakers) > 0) =>
        /\ \A i \in Cells : totals[i].pressure <= maxPressure
        /\ \E i \in Cells : totals[i].pressure = maxPressure
        /\ \A i \in Cells :
              /\ magMap[i] = F32(totals[i].pressure)
              /\ magMap[i] <= F32(maxPressure)
              /\ Intensity(magMap[i], maxPressure, settings)
                    <= Intensity(F32(maxPressure), maxPressure, settings)
              /\ Intensity(magMap[i], maxPressure, settings) <= IntensityOne + 2
              /\ (magMap[i] = maxPressure /\ maxPressure > 0) =>
                    Intensity(magMap[i], maxPressure, settings) = IntensityOne
              /\ (magMap[i] = F32(maxPressure) /\ maxPressure > 0) =>
                    Intensity(magMap[i], maxPressure, settings) >= IntensityOne - 2

\* SPL mode: a cell stores a magnitude above maxPressure, its intensity is above
\* 1 and it is painted at full scale; another cell stores a smaller magnitude
MaxPressureIsLargestComputedWitness ==
    /\ Solved
    /\ Len(activeSpeakers) > 0
    /\ viewMode = "SPL"
    /\ \E i, j \in Cells :
          /\ magMap[i] > maxPressure
          /\ Intensity(magMap[i], maxPressure, settings) > IntensityOne
          /\ canvas[i] = <<255, 255, 255>>
          /\ 0 < magMap[j] /\ magMap[j] < maxPressure

\* exactly one active source, at gain 0 dB, delay 0 and without polarity inversion
OnePlainSource ==
    /\ Solved
    /\ Len(activeSpeakers) = 1
    /\ \A n \in DOMAIN speakers :
          speakers[n].id = activeSpeakers[1].id =>
              speakers[n].gain = 0 /\ speakers[n].delay = 0 /\ ~speakers[n].polarity

\* the cells nearest to the one active source
NearestCells ==
    {i \in Cells : \A j \in Cells : CellR(activeSpeakers[1], i) <= CellR(activeSpeakers[1], j)}

\* C8 as stated: with one plain source the cell nearest to it holds exactly
\* maxPressure, and a cell farther from the source never holds more than a
\* nearer one
NearestCellHoldsMaximum ==
    OnePlainSource =>
        /\ \A i \in NearestCells : magMap[i] = maxPressure
        /\ \A i, j \in Cells :
              CellR(activeSpeakers[1], i) <= CellR(activeSpeakers[1], j) =>
                  magMap[j] <= magMap[i]

\* C8: with one plain source the cell nearest to it holds maxPressure as a
\* 32-bit float stores it, its pressure being within rounding (2 units of
\* 1/PressureOne here) of maxPressure, and a cell farther from the source holds
\* no more than a nearer one beyond that rounding
NearestCellHoldsMaximumRounded ==
    OnePlainSource =>
        /\ \A i \in NearestCells :
              /\ totals[i].pressure >= maxPressure - 2
              /\ magMap[i] = F32(maxPressure)
        /\ \A i, j \in Cells :
              CellR(activeSpeakers[1], i) <= CellR(activeSpeakers[1], j) =>
                  /\ totals[j].pressure <= totals[i].pressure + 2
                  /\ magMap[j] <= F32(totals[i].pressure + 2)

\* one plain source, ten rows of cells: the nearest cell holds the largest
\* stored magnitude, and somewhere a farther cell holds more than a nearer one
NearestCellHoldsMaximumRoundedWitness ==
    /\ OnePlainSource
    /\ dimensions.h = 10
    /\ \A i \in NearestCells : \A j \in Cells : magMap[j] <= magMap[i]
    /\ \E i, j \in Cells :
          /\ CellR(activeSpeakers[1], i) < CellR(activeSpeakers[1], j)
          /\ magMap[j] > magMap[i]

\* two active sources at one position with one gain and one delay
TwinSources ==
    /\ Solved
    /\ Len(speakers) = 2 /\ Len(activeSpeakers) = 2
    /\ speakers[1].x = speakers[2].x /\ speakers[1].y = speakers[2].y
    /\ speakers[1].gain = speakers[2].gain
    /\ speakers[1].delay = speakers[2].delay

\* twins that differ in polarity
OppositeTwins == TwinSources /\ speakers[1].polarity # speakers[2].polarity

\* twins in phase
EqualTwins == TwinSources /\ speakers[1].polarity = speakers[2].polarity

\* what one of the twins alone leaves at cell i: its magnitude at the cell
TwinMag(i) == SourceMag(activeSpeakers[1], CellR(activeSpeakers[1], i))

\* C9 as stated: twins of opposite polarity cancel exactly, re, im and magnitude
\* are 0 at every cell and maxPressure is 0
OppositePolarityCancelsExactly ==
    OppositeTwins =>
        /\ \A i \in Cells :
              /\ totals[i].re = 0 /\ totals[i].im = 0 /\ totals[i].pressure = 0
              /\ reMap[i] = 0 /\ imMap[i] = 0 /\ magMap[i] = 0
        /\ maxPressure = 0

\* C9: twins of opposite polarity cancel to within rounding: at every cell re,
\* im and the magnitude stay within a thousandth of one twin's magnitude there
\* plus 2 units, and so does maxPressure, which need not be 0
OppositePolarityCancelsWithinRounding ==
    OppositeTwins =>
        /\ \A i \in Cells :
              /\ Abs(totals[i].re) <= 2 + TwinMag(i) \div 1000
              /\ Abs(totals[i].im) <= 2 + TwinMag(i) \div 1000
              /\ totals[i].pressure <= 2 + TwinMag(i) \div 1000
              /\ magMap[i] <= 2 + TwinMag(i) \div 1000
        /\ \E i \in Cells : maxPressure <= 2 + TwinMag(i) \div 1000

\* twins of opposite polarity standing on a cell: a residue is left, maxPressure
\* is above 0 and far below what one twin alone gives
OppositePolarityCancelsWithinRoundingWitness ==
    /\ OppositeTwins
    /\ \E i \in Cells : CellR(activeSpeakers[1], i) = 0 /\ totals[i].im # 0
    /\ maxPressure > 0
    /\ \E i \in Cells : 100 * maxPressure < TwinMag(i)

\* what active source n alone adds at cell i: <<re, im>>
Alone(n, i) == Contribution(activeSpeakers[n], CellX(i), CellY(i), WaveNumber(settings))

\* the magnitude of active source n at cell i, and its phase there
MagAt(n, i) == SourceMag(activeSpeakers[n], CellR(activeSpeakers[n], i))

PhaseAt(n, i) ==
    -RDiv(WaveNumber(settings) * CellR(activeSpeakers[n], i), WaveOne)
        + activeSpeakers[n].phaseShift

\* App's initial speakers solved on a canvas of 100 x 100; the cell at (0, 0)
InitialScenario ==
    Solved /\ speakers = InitialSpeakers /\ dimensions = [w |-> 100, h |-> 100]

CentreCell == 50 * 100 + 50

\* C10: contributions add coherently.  Where two active sources have the same
\* phase the magnitude is the sum of their magnitudes (to the rounding of the
\* sum, 2 units); twins in phase give exactly twice the re and im of one of
\* them at every cell, hence twice its magnitude (to the unit the square root
\* is rounded to); and with sources at (-0.5, 0) and (0.5, 0) on the 20 x 20 m
\* venue and a 100 x 100 grid the cell at (0, 0) holds more than either source
\* alone gives at that distance
ContributionsAddCoherently ==
    /\ (Solved /\ Len(activeSpeakers) = 2) =>
          \A i \in Cells :
              PhaseAt(1, i) = PhaseAt(2, i) =>
                  Abs(totals[i].pressure - (MagAt(1, i) + MagAt(2, i))) <= 2
    /\ EqualTwins =>
          \A i \in Cells :
              /\ totals[i].re = 2 * Alone(1, i)[1]
              /\ totals[i].im = 2 * Alone(1, i)[2]
              /\ Abs(totals[i].pressure - 2 * CellTotals(Alone(1, i)).pressure) <= 1
    /\ InitialScenario =>
          /\ CellX(CentreCell) = 0 /\ CellY(CentreCell) = 0
          /\ PhaseAt(1, CentreCell) = PhaseAt(2, CentreCell)
          /\ totals[CentreCell].pressure > MagAt(1, CentreCell)
          /\ totals[CentreCell].pressure > MagAt(2, CentreCell)

\* the scenario solved: the two sources arrive at (0, 0) in phase and the cell
\* holds nearly twice what one of them gives there
ContributionsAddCoherentlyWitness ==
    /\ InitialScenario
    /\ MagAt(1, CentreCell) = MagAt(2, CentreCell)
    /\ MagAt(1, CentreCell) > 0
    /\ 10 * totals[CentreCell].pressure > 19 * MagAt(1, CentreCell)

\* minPressure as the claim writes it: maxPressure * 10^(-dynamicRange / 20)
QuietThreshold == RDiv(maxPressure * Pow10Twentieth(-settings.dynamicRange), GainOne)

\* the hue colour of atan2(im, re) of cell i
HueOfCell(i) == getPhaseColor(MathAtan2(imMap[i], reMap[i]))

\* C11: with a non-empty active set, in Phase mode a cell shows the background
\* colour (15, 23, 42) exactly when its stored magnitude is at most
\* minPressure = maxPressure * 10^(-dynamicRange / 20), and every other cell
\* shows the hue colour of atan2(im, re); in SPL mode a cell of magnitude 0 has
\* intensity 0 and shows black (0, 0, 0)
QuietCellsSuppressed ==
    (Solved /\ Len(activeSpeakers) > 0) =>
        \A i \in Cells :
            /\ viewMode = "Phase" =>
                  /\ canvas[i] = <<15, 23, 42>> <=> magMap[i] <= QuietThreshold
                  /\ magMap[i] > QuietThreshold => canvas[i] = HueOfCell(i)
            /\ (viewMode = "SPL" /\ magMap[i] = 0) =>
                  /\ Intensity(magMap[i], maxPressure, settings) = 0
                  /\ canvas[i] = <<0, 0, 0>>

\* Phase mode, one source: a cell far from it is below minPressure and shows
\* the background, the cell it stands on shows a hue
QuietCellsSuppressedWitness ==
    /\ Solved
    /\ Len(activeSpeakers) = 1
    /\ viewMode = "Phase"
    /\ \E i, j \in Cells :
          /\ 0 < magMap[i] /\ magMap[i] <= QuietThreshold /\ canvas[i] = Background
          /\ magMap[j] > QuietThreshold /\ canvas[j] # Background

\* SPL mode, a non-empty active set and a cell of magnitude 0, shown black
SilentCellIsBlack ==
    /\ Solved
    /\ Len(activeSpeakers) > 0
    /\ viewMode = "SPL"
    /\ \E i \in Cells : magMap[i] = 0 /\ canvas[i] = <<0, 0, 0>>

(***************************************************************************)
(* Properties of the colour maps                                           *)
(***************************************************************************)
\* the stops of the SPL ramp, in 1/IntensityOne, and their colours
Stops == <<0, 2000, 4000, 6000, 8000, 9500, 10000>>

StopColors ==
    <<<<0, 0, 0>>, <<0, 0, 255>>, <<0, 255, 255>>, <<0, 255, 0>>, <<255, 255, 0>>,
      <<255, 0, 0>>, <<255, 255, 255>>>>

\* the segment a value of [0, 1] lies in: the last stop at or below it
SegmentOf(v) ==
    IF v >= Stops[7] THEN 6
    ELSE CHOOSE k \in 1 .. 6 : Stops[k] <= v /\ v < Stops[k + 1]

\* the straight line between the colours of stops k and k + 1, at v, rounded
RampColor(v) ==
    LET k == SegmentOf(v)
        len == Stops[k + 1] - Stops[k]
    IN  [c \in 1 .. 3 |->
            MathRound(StopColors[k][c] * len
                          + (StopColors[k + 1][c] - StopColors[k][c]) * (v - Stops[k]), len)]

\* C12: getHeatmapColor clamps its input to [0, 1] and is the piecewise-linear
\* ramp through the seven stops: it returns the stops' colours at the stops,
\* every channel is in 0 .. 255, a value below 0 maps like 0 and a value above 1
\* like 1
HeatmapRampClamped ==
    (colorCall.fn = "getHeatmapColor" /\ colorCall.called) =>
        LET v == colorCall.arg
            rgb == colorCall.rgb
        IN  /\ \A c \in 1 .. 3 : rgb[c] \in 0 .. 255
            /\ v < 0 => rgb = getHeatmapColor(0) /\ rgb = <<0, 0, 0>>
            /\ v > IntensityOne => rgb = getHeatmapColor(IntensityOne) /\ rgb = <<255, 255, 255>>
            /\ (0 <= v /\ v <= IntensityOne) => rgb = RampColor(v)
            /\ \A k \in 1 .. 7 : v = Stops[k] => rgb = StopColors[k]

\* a value above 1 painted like 1, white
HeatmapRampClampedWitness ==
    /\ colorCall.fn = "getHeatmapColor" /\ colorCall.called
    /\ colorCall.arg > IntensityOne
    /\ colorCall.rgb = <<255, 255, 255>>

\* C13: getHeatmapColor has no jump at 0.2, 0.4, 0.6, 0.8 and 0.95: the colour
\* of the segment below, one step (1/IntensityOne) under the boundary, and the
\* colour of the segment above, at the boundary and one step over it, differ by
\* at most one on every channel
HeatmapRampContinuous ==
    (colorCall.fn = "getHeatmapColor" /\ colorCall.called) =>
        \A k \in 2 .. 6 :
            colorCall.arg = Stops[k] - 1 =>
                \A c \in 1 .. 3 :
                    /\ Abs(colorCall.rgb[c] - getHeatmapColor(Stops[k])[c]) <= 1
                    /\ Abs(colorCall.rgb[c] - getHeatmapColor(Stops[k] + 1)[c]) <= 1

\* the call one step under 0.95, in the yellow-to-red segment
HeatmapRampContinuousWitness ==
    /\ colorCall.fn = "getHeatmapColor" /\ colorCall.called
    /\ colorCall.arg = Stops[6] - 1
    /\ colorCall.rgb[1] = 255 /\ colorCall.rgb[3] = 0

\* theta + 2 * Math.PI, a number
PlusTwoPi(theta) == F64(theta + 2 * MathPI)

\* the hue of an angle in 1/IntensityOne turns: (theta + pi) / (2 * pi) wrapped
\* into [0, 1)
HueOf(theta) == (RDiv((theta + MathPI) * IntensityOne, 2 * MathPI)) % IntensityOne

\* where on the wheel a colour lies: the sextant of a hue and what it fixes
InSextant(rgb, h) ==
    LET k == (6 * h) \div IntensityOne
    IN  CASE k = 0 -> rgb[1] = 255 /\ rgb[3] = 0
          [] k = 1 -> rgb[2] = 255 /\ rgb[3] = 0
          [] k = 2 -> rgb[2] = 255 /\ rgb[1] = 0
          [] k = 3 -> rgb[3] = 255 /\ rgb[1] = 0
          [] k = 4 -> rgb[3] = 255 /\ rgb[2] = 0
          [] OTHER -> rgb[1] = 255 /\ rgb[2] = 0

\* the six landmarks of the wheel, at the hues k / 6
WheelColors ==
    <<<<255, 0, 0>>, <<255, 255, 0>>, <<0, 255, 0>>, <<0, 255, 255>>, <<0, 0, 255>>,
      <<255, 0, 255>>>>

Lambda == Wavelength(settings)

BaseR == RingBaseR(speakers[1], settings)

MaxRadius == maxDistMeters(settings)

\* lambda / 2 as base_r_trough takes it
HalfLambda == RDiv(Lambda, 2)

\* the peak loop has ended
PeaksEnded == overlay.pc \in {"troughs", "done", "peaksThrown", "troughsThrown"}

\* C15: with lambda > 0 the peak radii drawn are exactly the values
\* baseR + m * lambda in [0, maxRadius]: each is such a value, each is lambda
\* above the one before, the first is the smallest non-negative value congruent
\* to baseR modulo lambda, the last is less than lambda below maxRadius, and
\* ctx.arc is never given a negative radius
PeakRingsExact ==
    (Lambda > 0 /\ PeaksEnded) =>
        LET P == overlay.peaks
        IN  /\ overlay.pc # "peaksThrown"
            /\ \A k \in 1 .. Len(P) :
                  0 <= P[k] /\ P[k] <= MaxRadius /\ (P[k] - BaseR) % Lambda = 0
            /\ \A k \in 1 .. Len(P) - 1 : P[k + 1] = P[k] + Lambda
            /\ Len(P) > 0 => P[1] = BaseR % Lambda /\ P[Len(P)] + Lambda > MaxRadius
            /\ Len(P) = 0 => BaseR % Lambda > MaxRadius

\* a delayed source: baseR is negative, the first peak lies strictly between 0
\* and lambda and at least three peaks are drawn
PeakRingsExactWitness ==
    /\ Lambda > 0
    /\ overlay.pc = "done"
    /\ BaseR < 0
    /\ Len(overlay.peaks) >= 3
    /\ 0 < overlay.peaks[1] /\ overlay.peaks[1] < Lambda

\* C16: with lambda > 0 the trough radii drawn are exactly the values
\* (baseR - lambda / 2) + m * lambda in [0, maxRadius]: a negative radius is
\* skipped, neither drawn nor drawn as 0, consecutive troughs are lambda apart,
\* and every trough lies lambda / 2 below a value baseR + m * lambda and so
\* between two neighbouring peaks, lambda / 2 from each (to the unit lambda / 2
\* is rounded to)
TroughRingsExact ==
    /\ Lambda > 0 => overlay.pc # "troughsThrown"
    /\ (Lambda > 0 /\ overlay.pc = "done") =>
          LET T == overlay.troughs
              P == overlay.peaks
              baseT == BaseR - HalfLambda
          IN  /\ \A k \in 1 .. Len(T) :
                    0 <= T[k] /\ T[k] <= MaxRadius /\ (T[k] - baseT) % Lambda = 0
              /\ \A k \in 1 .. Len(T) - 1 : T[k + 1] = T[k] + Lambda
              /\ Len(T) > 0 => T[1] = baseT % Lambda /\ T[Len(T)] + Lambda > MaxRadius
              /\ Len(T) = 0 => baseT % Lambda > MaxRadius
              /\ \A k \in 1 .. Len(T) : (T[k] + HalfLambda - BaseR) % Lambda = 0
              /\ \A k \in 1 .. Len(T) : \A j \in 1 .. Len(P) :
                    /\ (P[j] <= T[k] /\ T[k] - P[j] < Lambda) =>
                          T[k] - P[j] = Lambda - HalfLambda
                    /\ (T[k] <= P[j] /\ P[j] - T[k] < Lambda) =>
                          P[j] - T[k] = HalfLambda

\* a negative trough radius was computed and skipped, and troughs and peaks
\* were drawn
TroughRingsExactWitness ==
    /\ Lambda > 0
    /\ overlay.pc = "done"
    /\ overlay.skipped > 0
    /\ Len(overlay.troughs) >= 2 /\ Len(overlay.peaks) >= 2
    /\ overlay.troughs[1] > 0

\* C17 as stated: for every source and every settings value with frequency > 0
\* and a finite venue the peak loop and the trough loop come to an end
RingsTerminate ==
    <>(overlay.pc \in {"done", "peaksThrown", "troughsThrown"})

\* the peak loop running with m = NaN at a frequency of 20 Hz or more: the
\* wavelength is below the unit, and iterations have been made that changed
\* neither m nor r
RingsTerminateWitness ==
    /\ settings.frequency > 0
    /\ calculateSpeedOfSound(settings.temperature) > 0
    /\ Lambda = 0
    /\ overlay.pc = "peaks" /\ overlay.nan /\ overlay.turn

(***************************************************************************)
(* Properties of the effect under changes of its inputs                    *)
(***************************************************************************)
\* what a run of the effect on the current props and canvas size would show
CurrentRun ==
    HeatmapRun(speakers, groups, settings, viewMode, dimensions.w, dimensions.h, canvas)

\* C18 as stated: once no run of the effect is outstanding, the canvas shows
\* the encoding of the latest speakers, groups, settings and view mode at the
\* current width and height
NoStaleOutput == ~pending => canvas = CurrentRun.canvas

\* no run outstanding after a resize: the canvas of two cells shows its reset
\* bitmap, and a run on the current inputs would paint something else
NoStaleOutputWitness ==
    /\ ~pending
    /\ thrown = "none"
    /\ dimensions = [w |-> 2, h |-> 1]
    /\ presented = Unpainted
    /\ canvas = Blank(2, 1)
    /\ CurrentRun.canvas # canvas

\* C19: whatever the canvas shows was painted by one run of the effect, whole:
\* it is the output of a full run on the snapshot that run read, with the
\* maxPressure of that run, at the size the canvas still has; otherwise it is
\* the bitmap of a canvas nothing was painted on
PresentedFromOneSnapshot ==
    IF presented.painted
    THEN /\ presented.dimensions = dimensions
         /\ dimensions.w * dimensions.h > 0
         /\ \E act \in {ActiveSpeakers(presented.speakers, presented.groups,
                                        presented.settings)} :
                canvas = IF Len(act) = 0
                         THEN EmptyRun(act, presented.settings, presented.viewMode,
                                       dimensions.w, dimensions.h).canvas
                         ELSE SolveRun(act, presented.settings, presented.viewMode,
                                       dimensions.w, dimensions.h).canvas
    ELSE canvas = Blank(dimensions.w, dimensions.h)

\* the inputs changed after a paint of two cells of different colours, a run is
\* outstanding and the run on the new inputs will paint something else
PresentedFromOneSnapshotWitness ==
    /\ pending
    /\ presented.painted
    /\ presented.viewMode # viewMode
    /\ presented.speakers # speakers
    /\ dimensions = [w |-> 2, h |-> 1]
    /\ canvas[0] # canvas[1]
    /\ CurrentRun.canvas[0] # canvas[0]
    /\ CurrentRun.canvas[1] # canvas[1]

(***************************************************************************)
(* Properties of the consumers of the mute and solo rule                   *)
(***************************************************************************)
IdsOf(list) == [i \in DOMAIN list |-> list[i].id]

\* the speakers isSpeakerActive accepts
PredicateActive == SelectSeq(speakers, LAMBDA s : isSpeakerActive(s, groups))

\* C20 as stated: computeSoundField and isSpeakerActive select the same
\* speakers as the heatmap effect, for all lists of speakers and groups
ConsumersAgree ==
    (Solved /\ soundField.called) =>
        /\ IdsOf(soundField.activeSpeakers) = IdsOf(activeSpeakers)
        /\ IdsOf(PredicateActive) = IdsOf(activeSpeakers)

\* one speaker, not muted and not soloed, in a muted group: the effect leaves
\* it out, computeSoundField keeps it
ConsumersAgreeWitness ==
    /\ Solved /\ soundField.called
    /\ Len(speakers) = 1
    /\ ~speakers[1].mute /\ ~speakers[1].solo /\ speakers[1].groupId = 1
    /\ Len(groups) = 1 /\ groups[1].mute
    /\ Len(activeSpeakers) = 0
    /\ Len(soundField.activeSpeakers) = 1

\* two speakers in no group, neither muted, the second soloed: the effect keeps
\* the second only, isSpeakerActive accepts both
SoloIgnoredByPredicate ==
    /\ Solved
    /\ Len(speakers) = 2
    /\ \A i \in 1 .. 2 : ~speakers[i].mute /\ speakers[i].groupId = Undefined
    /\ ~speakers[1].solo /\ speakers[2].solo
    /\ IdsOf(activeSpeakers) = <<2>>
    /\ IdsOf(PredicateActive) = <<1, 2>>

(***************************************************************************)
(* Properties of mute against solo                                         *)
(***************************************************************************)
\* some speaker or some group has its solo flag set, whether or not the
\* speaker is muted and whether or not the group has a member
SoloFlagSet ==
    \/ \E i \in DOMAIN speakers : speakers[i].solo
    \/ \E j \in DOMAIN groups : groups[j].solo

\* the group of id gid has no member
Memberless(gid) == \A i \in DOMAIN speakers : speakers[i].groupId # gid

\* C21 as stated: once a solo flag is set anywhere, every source whose own
\* solo flag is not set is inactive
UnsoloedSourcesInactive ==
    Solved => \A i \in DOMAIN speakers :
                  (SoloFlagSet /\ ~speakers[i].solo) => ~InActiveSet(speakers[i])

\* C21: a source that is muted, itself or through its group, is never active,
\* whatever the solo flags; and a solo flag set anywhere, on a muted source or
\* on a group without members too, makes every source inactive that is soloed
\* neither itself nor through its group
MuteDominatesSolo ==
    Solved => \A i \in DOMAIN speakers :
                  /\ EffectivelyMuted(speakers[i]) => ~InActiveSet(speakers[i])
                  /\ (SoloFlagSet /\ ~EffectivelySoloed(speakers[i])) =>
                         ~InActiveSet(speakers[i])

\* the only solo flag set is that of a muted source: that source is inactive,
\* and so is a second source that is not muted
MuteDominatesSoloWitness ==
    /\ Solved
    /\ Len(speakers) = 2
    /\ \A j \in DOMAIN groups : ~groups[j].solo /\ ~groups[j].mute
    /\ speakers[1].mute /\ speakers[1].solo
    /\ ~speakers[2].mute /\ ~speakers[2].solo
    /\ Len(activeSpeakers) = 0

\* the only solo flag set is that of a group without members: no source is
\* active
MemberlessSoloSilencesAll ==
    /\ Solved
    /\ Len(speakers) = 2
    /\ \A i \in DOMAIN speakers : ~speakers[i].mute /\ ~speakers[i].solo
    /\ Len(groups) = 1 /\ groups[1].solo /\ ~groups[1].mute /\ Memberless(groups[1].id)
    /\ Len(activeSpeakers) = 0

(***************************************************************************)
(* Properties of the selection and of the groups                           *)
(***************************************************************************)
\* C22: every id in selectedSpeakerIds is the id of a speaker in the list
SelectionIsOfSpeakers ==
    \A n \in DOMAIN selectedSpeakerIds :
        \E i \in DOMAIN speakers : speakers[i].id = selectedSpeakerIds[n]

\* selected speakers were removed: the list is shorter than App's initial one,
\* a speaker made since is in it, and two speakers are selected
SelectionIsOfSpeakersWitness ==
    /\ Len(speakers) = 2
    /\ \E i \in DOMAIN speakers : speakers[i].id \notin {1, 2}
    /\ \E i \in DOMAIN speakers : speakers[i].id \in {1, 2}
    /\ Len(selectedSpeakerIds) = 2
    /\ ~isDragging

\* a preset has replaced the speakers and one of the new ones is selected
SelectionAfterPreset ==
    /\ Len(speakers) = 4
    /\ \A i \in DOMAIN speakers : speakers[i].id \notin {1, 2}
    /\ Len(selectedSpeakerIds) = 1

\* the groupId of speaker i is undefined or the id of a group in the list
GroupIdValid(i) ==
    speakers[i].groupId = Undefined \/ \E j \in DOMAIN groups : groups[j].id = speakers[i].groupId

\* a step that deletes the group of id gid: its members are unassigned, every
\* other speaker and every other group is as before
DeletesGroup(gid) ==
    /\ groups' = SelectSeq(groups, LAMBDA g : g.id # gid)
    /\ DOMAIN speakers' = DOMAIN speakers
    /\ \A i \in DOMAIN speakers :
          /\ speakers[i].groupId = gid =>
                speakers'[i] = [speakers[i] EXCEPT !.groupId = Undefined]
          /\ speakers[i].groupId # gid => speakers'[i] = speakers[i]

\* C23: every speaker's groupId is undefined or the id of a group in the list,
\* and a step that shortens the group list deletes one group, unassigns its
\* members and leaves every other speaker and group unchanged
GroupIdsAreOfGroups ==
    /\ [](\A i \in DOMAIN speakers : GroupIdValid(i))
    /\ [][Len(groups') < Len(groups) => \E gid \in GroupIds(groups) : DeletesGroup(gid)]_vars

\* a group was deleted that had a member, while another group with a member
\* and a speaker of no group stay: one group of an id other than the first
\* made, with a member, and two speakers without a group
GroupIdsAreOfGroupsWitness ==
    /\ Len(groups) = 1 /\ groups[1].id # 1
    /\ Len(speakers) = 3
    /\ \E i \in DOMAIN speakers : speakers[i].groupId = groups[1].id
    /\ Cardinality({i \in DOMAIN speakers : speakers[i].groupId = Undefined}) = 2

(***************************************************************************)
(* Properties of the drag                                                  *)
(***************************************************************************)
Selected(id) == \E n \in DOMAIN selectedSpeakerIds : selectedSpeakerIds[n] = id

\* the speakers after the step are those before it with every selected one at
\* the double nearest its position at drag start plus (dx, dy), and every
\* other one where it was
MovedBy(dx, dy) ==
    /\ DOMAIN speakers' = DOMAIN speakers
    /\ \A i \in DOMAIN speakers :
          IF Selected(speakers[i].id)
          THEN /\ speakers[i].id \in DOMAIN initialPositions
               /\ speakers'[i] =
                      [speakers[i] EXCEPT
                          !.x = F64(initialPositions[speakers[i].id].x + dx),
                          !.y = F64(initialPositions[speakers[i].id].y + dy)]
          ELSE speakers'[i] = speakers[i]

\* a step that starts a drag takes the positions of the selected speakers
StartsDrag ==
    /\ isDragging'
    /\ <<isDragging, dragStart, initialPositions, selectedSpeakerIds>>' #
           <<isDragging, dragStart, initialPositions, selectedSpeakerIds>>

SnapshotTaken ==
    /\ speakers' = speakers
    /\ \A i \in DOMAIN speakers :
          (\E n \in DOMAIN selectedSpeakerIds' : selectedSpeakerIds'[n] = speakers[i].id) =>
              /\ speakers[i].id \in DOMAIN initialPositions'
              /\ initialPositions'[speakers[i].id] = [x |-> speakers[i].x, y |-> speakers[i].y]

\* C24: a step that starts a drag records the position of every selected
\* speaker; a step that changes a speaker happens within a drag with a
\* selection, leaves selection and recorded positions alone and puts every
\* selected speaker at the double nearest its recorded position plus one common
\* (dx, dy), every unselected speaker staying where it was; outside a drag or
\* with an empty selection no speaker changes
DragMovesSelectionOnly ==
    /\ [][StartsDrag => SnapshotTaken]_vars
    /\ [][speakers' # speakers =>
             /\ isDragging /\ dragStart # Null /\ Len(selectedSpeakerIds) > 0
             /\ UNCHANGED interaction
             /\ \E px \in -(dimensions.w) .. dimensions.w, py \in -(dimensions.h) .. dimensions.h :
                    MovedBy(Quot(px * settings.venueWidth * Metre, dimensions.w),
                            Quot(py * settings.venueDepth * Metre, dimensions.h))]_vars

\* two selected speakers have been dragged away from their recorded positions
\* while the drag is on
DragMovesSelectionOnlyWitness ==
    /\ isDragging
    /\ Len(selectedSpeakerIds) = 2
    /\ \A i \in DOMAIN speakers :
          /\ speakers[i].id \in DOMAIN initialPositions
          /\ speakers[i].x # initialPositions[speakers[i].id].x
          /\ speakers[i].y # initialPositions[speakers[i].id].y

\* one speaker has been dragged while the other, unselected, is where App put
\* it, and the drag is over
DraggedOneOnly ==
    /\ Released
    /\ speakers[1].x # -500
    /\ speakers[2] \in {InitialSpeakers[2], [InitialSpeakers[2] EXCEPT !.x = 501]}

\* C24 as stated: during a drag the offsets between the selected speakers are
\* those of the drag start
OffsetsPreserved ==
    isDragging =>
        \A i, j \in DOMAIN speakers :
            (speakers[i].id \in DOMAIN initialPositions /\ speakers[j].id \in DOMAIN initialPositions) =>
                /\ speakers[i].x - speakers[j].x =
                       initialPositions[speakers[i].id].x - initialPositions[speakers[j].id].x
                /\ speakers[i].y - speakers[j].y =
                       initialPositions[speakers[i].id].y - initialPositions[speakers[j].id].y

=============================================================================
